---- MODULE Spec2Model ----
(***************************************************************************)
(* A model of sealer's cluster lifecycle engine: the concurrent per-host   *)
(* batches (errgroup / WaitGroup fan-out), the kubeadm lifecycle           *)
(* operations Install, ScaleUp, ScaleDown and Reset, the k0s upgrade and   *)
(* the parser of the join command printed by "kubeadm init".               *)
(***************************************************************************)
EXTENDS Integers, Sequences, FiniteSets, TLC

\* ------------------------------------------------------------------ bounds
\* most masters and most workers of a cluster; host addresses are 1..NumIPs
MaxMasters == 3
MaxWorkers == 2
\* longest mastersToDelete handed to ScaleDown
MaxArgs == 2
\* longest host list handed to one concurrent batch
MaxBatch == 2
\* most flags on a generated join command line
MaxGroups == 4
\* the cells an IPS slice may hold beyond its length
MaxSpare == 1

\* the length decodeJoinCmd cuts the certificate key to
KeyLen == 64

NumIPs == MaxMasters + MaxWorkers
IPs == 1..NumIPs

VARIABLES
    \* ---- one concurrent batch (errgroup.Group or sync.WaitGroup fan-out)
    bstate,     \* "idle" | "waitssh" | "running" | "returned"
    kind,       \* which fan-out loop is running
    ipList,     \* the hosts of the batch, in loop order
    spawned,    \* number of loop iterations done (goroutines started)
    loopIP,     \* the range variable `ip` of the loop (0 before the loop)
    tpc,        \* tpc[i]: position of the goroutine of ipList[i]
    failed,     \* indices of the tasks in which a host operation failed
    egErr,      \* errgroup.Group.err, written once (errOnce)
    flag,       \* `flag` of mountRootfs / unmountRootfs
    sharedErr,  \* `err` of joinNodes, captured by every goroutine
    result,     \* the value the batch function returned
    cmds,       \* cmds[h]: the remote operations issued on host h, in order
    rs,         \* the master list rendered into ipvsCmd / the lvscare pod
    lb,         \* lb[h]: the backend set configured on host h
    endpoint,   \* endpoint[h]: the API server endpoint host h joins through
    nextStarted \* the caller went on to its next step

batchVars == <<bstate, kind, ipList, spawned, loopIP, tpc, failed, egErr, flag,
               sharedErr, result, cmds, rs, lb, endpoint, nextStarted>>

VARIABLES
    \* ---- the output of "kubeadm init" on master-zero and its parse
    gphase,     \* "start" | "line" (in the join command) | "closed"
    sep,        \* what separates the flags of the printed join command
    line,       \* the flags of the join command, as [flag, val] records
    output,     \* the captured output, a sequence of characters
    decoded,    \* the output was handed to decodeMaster0Output
    parsed      \* what decodeMaster0Output made of it

parseVars == <<gphase, sep, line, output, decoded, parsed>>

VARIABLES
    \* ---- the lifecycle controller (Runtime) and the cluster it drives
    op,         \* the operation invoked: Install, ScaleUp, ScaleDown, Reset
    pc,         \* the statement the operation is at
    masters,    \* infra.GetHostIPListByRole(MASTER)
    workers,    \* infra.GetHostIPListByRole(NODE)
    argM,       \* newMasters / mastersToDelete
    argW,       \* newWorkers / workersToDelete
    opResult,   \* "running" | "nil" | "error" | "panic"
    log         \* the steps of the operation that completed, in order

lifeVars == <<op, pc, masters, workers, argM, argW, opResult, log>>

VARIABLES
    \* ---- the cluster description (v2.Cluster) held in memory
    hosts,      \* cluster.Spec.Hosts: a list of [ips, roles, env] records
    env,        \* cluster.Spec.Env: a list of <<key, value>> entries
    driver,     \* the SSHInfraDriver built from the cluster description
    cf          \* the ClusterFile object: its cluster, its snapshot, the
                \* arrays behind the Hosts slices

clusterVars == <<hosts, env, driver, cf>>

vars == <<batchVars, parseVars, lifeVars, clusterVars>>

\* ------------------------------------------------------------------ helpers
Range(s) == {s[i] : i \in DOMAIN s}

\* duplicate-free sequences over S of length at most n
SeqsUpTo(S, n) ==
    {s \in UNION {[1..k -> S] : k \in 0..n} :
        \A i, j \in DOMAIN s : i # j => s[i] # s[j]}

\* a Go error value: nil, or an error whose text names the hosts in `names`
NoErr == [isErr |-> FALSE, names |-> {}]
Err(names) == [isErr |-> TRUE, names |-> names]

\* the per-host command sequence of each fan-out loop
Steps(k) ==
    CASE k = "Execute" -> <<"f">>
      [] k = "concurrencyExecute" -> <<"f">>
      [] k = "mountRootfs" -> <<"Copy", "init.sh">>
      [] k = "unmountRootfs" -> <<"clean.sh">>
      [] k = "joinMasters" -> <<"joinMaster">>
      [] k = "deleteNodes" -> <<"deleteNode">>
      [] k = "deleteMasters" -> <<"deleteMaster">>
      [] k = "joinNodes" -> <<"checkRoute", "ipvs", "writeJoinConfig",
                              "setHostAlias", "joinNode", "lvscare">>
      [] OTHER -> <<>>

ErrgroupKinds == {"Execute", "concurrencyExecute", "joinMasters", "joinNodes",
                  "deleteNodes", "deleteMasters"}
FlagKinds == {"mountRootfs", "unmountRootfs"}

\* a goroutine is about to run command `step` ("run"), about to test the error
\* of command `step` ("check", joinNodes only), or has returned ("done")
At(n, ph) == [step |-> n, phase |-> ph]
Started(i) == i <= spawned
IsDone(i) == tpc[i].phase = "done"

\* errgroup.Group.Go's errOnce.Do: only the first error is kept
ErrOnce(old, new) == IF old.isErr THEN old ELSE new

\* the state of a batch function at its first statement
BatchStart(k, ips) ==
    /\ bstate' = IF k = "mountRootfs" THEN "waitssh" ELSE "running"
    /\ kind' = k
    /\ ipList' = ips
    /\ spawned' = 0
    /\ loopIP' = 0
    /\ tpc' = [i \in DOMAIN ips |-> At(1, "run")]
    /\ failed' = {}
    /\ egErr' = NoErr
    /\ flag' = FALSE
    /\ sharedErr' = NoErr
    /\ result' = NoErr

AllSpawned == spawned = Len(ipList)
AllDone == \A i \in DOMAIN ipList : IsDone(i)

Issue(h, c) == cmds' = [cmds EXCEPT ![h] = Append(@, c)]

\* Config.VIP, the virtual address of the API server: no host's address
VIP == NumIPs + 1
APIServerPort == 6443
\* the endpoint taken from the first master of the cluster
VSOfFirstMaster == <<masters[1], APIServerPort>>

\* vs := net.JoinHostPort(k.getAPIServerVIP().String(), "6443")
VS == <<VIP, APIServerPort>>
\* a map without a key
EmptyMap == [k \in {} |-> 0]

\* `return nil, err` of NewInfraDriver: there is no driver
NoDriver ==
    [built |-> FALSE, hosts |-> <<>>, sshConfigs |-> {},
     roleHostsMap |-> [r \in {"master", "node"} |-> <<>>],
     clusterEnv |-> EmptyMap, hostEnvMap |-> EmptyMap, registry |-> "none"]

\* no host has a join configuration
NoEndpoints == [h \in IPs |-> <<>>]

\* ------------------------------------------- variables that are not in use
\* the batch variables where no batch runs
BatchIdle ==
    /\ bstate = "idle"
    /\ kind = "none"
    /\ ipList = <<>>
    /\ spawned = 0
    /\ loopIP = 0
    /\ tpc = <<>>
    /\ failed = {}
    /\ egErr = NoErr
    /\ flag = FALSE
    /\ sharedErr = NoErr
    /\ result = NoErr
    /\ cmds = [h \in IPs |-> <<>>]
    /\ rs = <<>>
    /\ lb = [h \in IPs |-> {}]
    /\ endpoint = NoEndpoints
    /\ nextStarted = FALSE

\* no ClusterFile object
NoClusterFile == [loaded |-> FALSE]

\* the cluster description where no cluster file is loaded
ClusterIdle ==
    /\ hosts = <<>>
    /\ env = <<>>
    /\ driver = NoDriver
    /\ cf = NoClusterFile

\* the parser's variables where no output is parsed
ParseIdle ==
    /\ gphase = "idle"
    /\ sep = <<>>
    /\ line = <<>>
    /\ output = <<>>
    /\ decoded = FALSE
    /\ parsed = [panic |-> FALSE, token |-> <<>>, hashes |-> <<>>, key |-> <<>>]

\* the lifecycle variables where no operation runs
LifeIdle ==
    /\ op = "none"
    /\ pc = "none"
    /\ masters = <<>>
    /\ workers = <<>>
    /\ argM = <<>>
    /\ argW = <<>>
    /\ opResult = "running"
    /\ log = <<>>

\* ------------------------------------------------- strings (Go's strings)
\* the marker that introduces the join command
KubeadmJoin ==
    <<"k", "u", "b", "e", "a", "d", "m", " ", "j", "o", "i", "n">>
\* the sentence that ends the join command
PleaseNote ==
    <<"P", "l", "e", "a", "s", "e", " ", "n", "o", "t", "e">>
FlagToken ==
    <<"-", "-", "t", "o", "k", "e", "n">>
FlagCACertHash ==
    <<"-", "-", "d", "i", "s", "c", "o", "v", "e", "r", "y", "-", "t", "o",
      "k", "e", "n", "-", "c", "a", "-", "c", "e", "r", "t", "-", "h", "a",
      "s", "h">>
FlagCertKey ==
    <<"-", "-", "c", "e", "r", "t", "i", "f", "i", "c", "a", "t", "e", "-",
      "k", "e", "y">>
FlagControlPlane ==
    <<"-", "-", "e", "x", "p", "e", "r", "i", "m", "e", "n", "t", "a", "l",
      "-", "c", "o", "n", "t", "r", "o", "l", "-", "p", "l", "a", "n", "e">>
\* the API server address after "kubeadm join"
Endpoint ==
    <<"1", ".", "2", ".", "3", ".", "4", ":", "6", "4", "4", "3">>
\* a bootstrap token
TokenValue ==
    <<"9", "v", "r", ".", "a", "8", "u">>
\* CA certificate hashes
HashValueA ==
    <<"s", "h", "a", "2", "5", "6", ":", "7", "c", "2", "e">>
HashValueB ==
    <<"s", "h", "a", "2", "5", "6", ":", "9", "d", "4", "1">>
\* what may trail the certificate key
Extra ==
    <<"e", "x", "t", "r", "a">>
\* text printed before the join command
Preamble ==
    <<"i", "n", "i", "t", " ", "o", "k", "\n">>

\* a certificate key, and shorter and longer values in its place
CertKey == [i \in 1..KeyLen |-> IF i % 2 = 0 THEN "8" ELSE "f"]
CertKeyExtra == CertKey \o Extra
CertKeyShort == SubSeq(CertKey, 1, KeyLen - 1)

\* `sub` occurs in s at position i
MatchAt(s, sub, i) ==
    /\ i + Len(sub) - 1 <= Len(s)
    /\ \A j \in 1..Len(sub) : s[i + j - 1] = sub[j]

\* strings.Contains
Contains(s, sub) == \E i \in 1..(Len(s) - Len(sub) + 1) : MatchAt(s, sub, i)

\* strings.Index, counted from 1; 0 when `sub` does not occur
Index(s, sub) ==
    IF Contains(s, sub)
    THEN CHOOSE i \in 1..Len(s) :
            MatchAt(s, sub, i) /\ \A j \in 1..(i - 1) : ~MatchAt(s, sub, j)
    ELSE 0

\* strings.Split with a non-empty separator
RECURSIVE Split(_, _)
Split(s, sp) ==
    LET i == Index(s, sp) IN
    IF i = 0 THEN <<s>>
    ELSE <<SubSeq(s, 1, i - 1)>> \o Split(SubSeq(s, i + Len(sp), Len(s)), sp)

\* strings.ReplaceAll(s, c, "") for a one-character c
Remove(s, c) == SelectSeq(s, LAMBDA x : x # c)

White == {" ", "\t", "\n", "\r"}

\* strings.TrimSpace
RECURSIVE TrimLeft(_)
TrimLeft(s) ==
    IF s # <<>> /\ Head(s) \in White THEN TrimLeft(Tail(s)) ELSE s

RECURSIVE TrimRight(_)
TrimRight(s) ==
    IF s # <<>> /\ s[Len(s)] \in White
    THEN TrimRight(SubSeq(s, 1, Len(s) - 1)) ELSE s

TrimSpace(s) == TrimRight(TrimLeft(s))

\* ------------------------------------------- the bootstrap token protocol
\* the loop body's clean-up of one element of the split command line
Clean(r) == TrimSpace(Remove(Remove(Remove(r, "\t"), "\n"), "\\"))

\* a flag test that also fires on the flags that merely mention a token
IsTokenFlagLoose(r) == Contains(r, <<"t", "o", "k", "e", "n">>)

\* strings.Contains(r, "--token")
IsTokenFlag(r) == Contains(r, FlagToken)

\* the certificate key taken whole
CertKeyOfWhole(v) == v

\* stringSlice[i+1][:64]
CertKeyOf(v) == SubSeq(v, 1, KeyLen)

\* the zero values of the token and of the key
ZeroParse ==
    [panic |-> FALSE, token |-> <<>>, hashes |-> <<>>, key |-> <<>>]

\* a run-time panic (index or slice bound out of range)
Panicked == [ZeroParse EXCEPT !.panic = TRUE]

\* one iteration of decodeJoinCmd's loop, at element i of stringSlice
DecodeAt(ss, i, acc) ==
    LET r == Clean(ss[i])
        hasNext == i + 1 <= Len(ss)
        a1 == IF IsTokenFlag(r)
              THEN (IF hasNext THEN [acc EXCEPT !.token = ss[i + 1]]
                               ELSE Panicked)
              ELSE acc
        a2 == IF ~a1.panic /\ Contains(r, FlagCACertHash)
              THEN (IF hasNext THEN [a1 EXCEPT !.hashes = <<ss[i + 1]>>]
                               ELSE Panicked)
              ELSE a1
        a3 == IF ~a2.panic /\ Contains(r, FlagCertKey)
              THEN (IF hasNext /\ Len(ss[i + 1]) >= KeyLen
                    THEN [a2 EXCEPT !.key = CertKeyOf(ss[i + 1])]
                    ELSE Panicked)
              ELSE a2
    IN a3

RECURSIVE DecodeLoop(_, _, _)
DecodeLoop(ss, i, acc) ==
    IF acc.panic \/ i > Len(ss) THEN acc
    ELSE DecodeLoop(ss, i + 1, DecodeAt(ss, i, acc))

\* Runtime.decodeJoinCmd
decodeJoinCmd(cmd) == DecodeLoop(Split(cmd, <<" ">>), 1, ZeroParse)

\* Runtime.decodeMaster0Output: slice[1] panics when the marker is missing
decodeMaster0Output(out) ==
    LET slice == Split(out, KubeadmJoin) IN
    IF Len(slice) < 2 THEN Panicked
    ELSE decodeJoinCmd(Split(slice[2], PleaseNote)[1])

\* ------------------------------------------------------- batch: the loops
\* ssh.WaitSSHReady at the head of mountRootfs
WaitSSHReady ==
    /\ bstate = "waitssh"
    /\ \E ok \in BOOLEAN :
         IF ok THEN bstate' = "running" /\ result' = result
               ELSE bstate' = "returned" /\ result' = Err({})
    /\ UNCHANGED <<kind, ipList, spawned, loopIP, tpc, failed, egErr, flag,
                   sharedErr, cmds, rs, lb, endpoint, nextStarted,
                   parseVars, clusterVars, lifeVars>>

\* one iteration of `for _, ip := range hosts`: the range variable takes the
\* next host and a goroutine for it is started (eg.Go / wg.Add(1); go func)
Spawn ==
    /\ bstate = "running"
    /\ spawned < Len(ipList)
    /\ spawned' = spawned + 1
    /\ loopIP' = ipList[spawned + 1]
    /\ UNCHANGED <<bstate, kind, ipList, tpc, failed, egErr, flag, sharedErr,
                   result, cmds, rs, lb, endpoint, nextStarted,
                   parseVars, clusterVars, lifeVars>>

\* a goroutine that can take a step
Runnable(i) ==
    /\ bstate = "running"
    /\ i \in DOMAIN ipList
    /\ Started(i)
    /\ ~IsDone(i)

\* the goroutine of SSHInfraDriver.Execute: f(host), the error names `host`
Execute_Task(i) ==
    /\ Runnable(i) /\ kind = "Execute" /\ tpc[i].phase = "run"
    /\ \E ok \in BOOLEAN :
         /\ failed' = IF ok THEN failed ELSE failed \cup {i}
         /\ egErr' = IF ok THEN egErr ELSE ErrOnce(egErr, Err({ipList[i]}))
    /\ Issue(ipList[i], "f")
    /\ tpc' = [tpc EXCEPT ![i] = At(1, "done")]
    /\ UNCHANGED <<bstate, kind, ipList, spawned, loopIP, flag, sharedErr,
                   result, rs, lb, endpoint, nextStarted,
                   parseVars, clusterVars, lifeVars>>

\* the goroutine of registry.concurrencyExecute: f(host), but the error text
\* is built from the range variable `ip`, which the loop goes on writing
ConcurrencyExecute_Task(i) ==
    /\ Runnable(i) /\ kind = "concurrencyExecute"
    /\ \E ok \in BOOLEAN :
         /\ failed' = IF ok THEN failed ELSE failed \cup {i}
         /\ egErr' = IF ok THEN egErr ELSE ErrOnce(egErr, Err({loopIP}))
    /\ Issue(ipList[i], "f")
    /\ tpc' = [tpc EXCEPT ![i] = At(1, "done")]
    /\ UNCHANGED <<bstate, kind, ipList, spawned, loopIP, flag, sharedErr,
                   result, rs, lb, endpoint, nextStarted,
                   parseVars, clusterVars, lifeVars>>

\* mountRootfs goroutine, first half: SSH.Copy; a failure sets the flag and
\* the goroutine goes on
MountRootfs_Copy(i) ==
    /\ Runnable(i) /\ kind = "mountRootfs" /\ tpc[i] = At(1, "run")
    /\ \E ok \in BOOLEAN :
         /\ failed' = IF ok THEN failed ELSE failed \cup {i}
         /\ flag' = IF ok THEN flag ELSE TRUE
    /\ Issue(ipList[i], "Copy")
    /\ tpc' = [tpc EXCEPT ![i] = At(2, "run")]
    /\ UNCHANGED <<bstate, kind, ipList, spawned, loopIP, egErr, sharedErr,
                   result, rs, lb, endpoint, nextStarted,
                   parseVars, clusterVars, lifeVars>>

\* mountRootfs goroutine, second half: SSH.CmdAsync(ip, initCmd)
MountRootfs_Init(i) ==
    /\ Runnable(i) /\ kind = "mountRootfs" /\ tpc[i] = At(2, "run")
    /\ \E ok \in BOOLEAN :
         /\ failed' = IF ok THEN failed ELSE failed \cup {i}
         /\ flag' = IF ok THEN flag ELSE TRUE
    /\ Issue(ipList[i], "init.sh")
    /\ tpc' = [tpc EXCEPT ![i] = At(2, "done")]
    /\ UNCHANGED <<bstate, kind, ipList, spawned, loopIP, egErr, sharedErr,
                   result, rs, lb, endpoint, nextStarted,
                   parseVars, clusterVars, lifeVars>>

\* unmountRootfs goroutine: SSH.CmdAsync(IP, execClean, rmRootfs)
UnmountRootfs_Task(i) ==
    /\ Runnable(i) /\ kind = "unmountRootfs"
    /\ \E ok \in BOOLEAN :
         /\ failed' = IF ok THEN failed ELSE failed \cup {i}
         /\ flag' = IF ok THEN flag ELSE TRUE
    /\ Issue(ipList[i], "clean.sh")
    /\ tpc' = [tpc EXCEPT ![i] = At(1, "done")]
    /\ UNCHANGED <<bstate, kind, ipList, spawned, loopIP, egErr, sharedErr,
                   result, rs, lb, endpoint, nextStarted,
                   parseVars, clusterVars, lifeVars>>

\* joinMasters is fanned out through the host execution driver, one join per
\* new master, each error naming its host
JoinMasters_Task(i) ==
    /\ Runnable(i) /\ kind = "joinMasters"
    /\ \E ok \in BOOLEAN :
         /\ failed' = IF ok THEN failed ELSE failed \cup {i}
         /\ egErr' = IF ok THEN egErr ELSE ErrOnce(egErr, Err({ipList[i]}))
    /\ Issue(ipList[i], "joinMaster")
    /\ tpc' = [tpc EXCEPT ![i] = At(1, "done")]
    /\ UNCHANGED <<bstate, kind, ipList, spawned, loopIP, flag, sharedErr,
                   result, rs, lb, endpoint, nextStarted,
                   parseVars, clusterVars, lifeVars>>

\* the commands of a joinNodes goroutine whose error text carries the node
NamesNode(c) == c \in {"ipvs", "writeJoinConfig", "joinNode", "lvscare"}

\* joinNodes goroutine: `err = <command on node>`; err is the variable of the
\* enclosing function, one for all goroutines
JoinNodes_Cmd(i) ==
    /\ Runnable(i) /\ kind = "joinNodes" /\ tpc[i].phase = "run"
    /\ LET c == Steps(kind)[tpc[i].step] IN
         /\ \E ok \in BOOLEAN :
              /\ failed' = IF ok THEN failed ELSE failed \cup {i}
              /\ sharedErr' = IF ok THEN NoErr ELSE Err({})
              /\ lb' = IF ok /\ c \in {"ipvs", "lvscare"}
                          THEN [lb EXCEPT ![ipList[i]] = Range(rs)]
                          ELSE lb
              /\ endpoint' = IF ok /\ c = "writeJoinConfig"
                                THEN [endpoint EXCEPT ![ipList[i]] = VS]
                                ELSE endpoint
         /\ Issue(ipList[i], c)
    /\ tpc' = [tpc EXCEPT ![i] = At(@.step, "check")]
    /\ UNCHANGED <<bstate, kind, ipList, spawned, loopIP, egErr, flag, result,
                   rs, nextStarted,
                   parseVars, clusterVars, lifeVars>>

\* joinNodes goroutine: `if err != nil { return fmt.Errorf(...) }`, reading
\* the shared variable; else the next command, or return nil after the last
JoinNodes_Check(i) ==
    /\ Runnable(i) /\ kind = "joinNodes" /\ tpc[i].phase = "check"
    /\ LET n == tpc[i].step
           c == Steps(kind)[n]
       IN IF sharedErr.isErr
          THEN /\ egErr' = ErrOnce(egErr,
                               Err(IF NamesNode(c) THEN {ipList[i]} ELSE {}))
               /\ tpc' = [tpc EXCEPT ![i] = At(n, "done")]
          ELSE /\ egErr' = egErr
               /\ tpc' = [tpc EXCEPT ![i] =
                             IF n = Len(Steps(kind)) THEN At(n, "done")
                                                     ELSE At(n + 1, "run")]
    /\ UNCHANGED <<bstate, kind, ipList, spawned, loopIP, failed, flag,
                   sharedErr, result, cmds, rs, lb, endpoint, nextStarted,
                   parseVars, clusterVars, lifeVars>>

\* a wait that gives up at the first failure
WaitReadyFailFast ==
    \/ \A i \in DOMAIN ipList : Started(i) => IsDone(i)
    \/ egErr.isErr
    \/ flag

\* eg.Wait() / wg.Wait(): blocks until every started goroutine has returned
\* (the context of errgroup.WithContext is discarded: nothing is cancelled)
WaitReady == \A i \in DOMAIN ipList : Started(i) => IsDone(i)

\* what the batch function returns after the wait
BatchResult ==
    IF kind \in FlagKinds THEN (IF flag THEN Err({}) ELSE NoErr) ELSE egErr

\* the wait after the loop, and the return of the batch function
Wait ==
    /\ bstate = "running"
    /\ AllSpawned
    /\ WaitReady
    /\ bstate' = "returned"
    /\ result' = BatchResult
    /\ UNCHANGED <<kind, ipList, spawned, loopIP, tpc, failed, egErr, flag,
                   sharedErr, cmds, rs, lb, endpoint, nextStarted,
                   parseVars, clusterVars, lifeVars>>

BatchStep ==
    \/ WaitSSHReady
    \/ Spawn
    \/ \E i \in DOMAIN ipList : Execute_Task(i)
    \/ \E i \in DOMAIN ipList : ConcurrencyExecute_Task(i)
    \/ \E i \in DOMAIN ipList : MountRootfs_Copy(i)
    \/ \E i \in DOMAIN ipList : MountRootfs_Init(i)
    \/ \E i \in DOMAIN ipList : UnmountRootfs_Task(i)
    \/ \E i \in DOMAIN ipList : JoinMasters_Task(i)
    \/ \E i \in DOMAIN ipList : JoinNodes_Cmd(i)
    \/ \E i \in DOMAIN ipList : JoinNodes_Check(i)
    \/ Wait

\* --------------------------------------------- a caller of one batch
BatchKinds == {"Execute", "concurrencyExecute", "mountRootfs", "unmountRootfs",
               "joinMasters", "joinNodes"}

\* the host lists <<1>>, <<1, 2>>, ... : the goroutines of joinNodes differ
\* only in the name of their host
Prefixes(n) == {[i \in 1..k |-> i] : k \in 0..n}

InitBatch ==
    /\ \E k \in BatchKinds :
         \E ips \in (IF k = "joinNodes" THEN Prefixes(MaxBatch)
                                         ELSE SeqsUpTo(IPs, MaxBatch)) :
            /\ bstate = (IF k = "mountRootfs" THEN "waitssh" ELSE "running")
            /\ kind = k
            /\ ipList = ips
            /\ tpc = [i \in DOMAIN ips |-> At(1, "run")]
            /\ rs = (IF k = "joinNodes" THEN <<NumIPs>> ELSE <<>>)
    /\ spawned = 0
    /\ loopIP = 0
    /\ failed = {}
    /\ egErr = NoErr
    /\ flag = FALSE
    /\ sharedErr = NoErr
    /\ result = NoErr
    /\ cmds = [h \in IPs |-> <<>>]
    /\ lb = [h \in IPs |-> {}]
    /\ endpoint = NoEndpoints
    /\ ClusterIdle
    /\ nextStarted = FALSE
    /\ ParseIdle
    /\ LifeIdle

\* the caller's statement after the call of the batch function
CallerNext ==
    /\ bstate = "returned"
    /\ ~nextStarted
    /\ nextStarted' = TRUE
    /\ UNCHANGED <<bstate, kind, ipList, spawned, loopIP, tpc, failed, egErr,
                   flag, sharedErr, result, cmds, rs, lb, endpoint,
                   parseVars, clusterVars, lifeVars>>

NextBatch == BatchStep \/ CallerNext

SpecBatch == InitBatch /\ [][NextBatch]_vars

\* ------------------------------------- outputs of "kubeadm init" to parse
FlagNames == {"token", "hash", "cp", "key"}

FlagText(f) ==
    CASE f = "token" -> FlagToken
      [] f = "hash" -> FlagCACertHash
      [] f = "key" -> FlagCertKey
      [] OTHER -> FlagControlPlane

\* the values a flag may carry; "none" is a flag with nothing after it
ValuesOf(f) ==
    CASE f = "token" -> {"T", "none"}
      [] f = "hash" -> {"HA", "HB", "none"}
      [] f = "key" -> {"K", "Kextra", "Kshort", "none"}
      [] OTHER -> {"none"}

ValueText(v) ==
    CASE v = "T" -> TokenValue
      [] v = "HA" -> HashValueA
      [] v = "HB" -> HashValueB
      [] v = "K" -> CertKey
      [] v = "Kextra" -> CertKeyExtra
      [] v = "Kshort" -> CertKeyShort
      [] OTHER -> <<>>

\* what kubeadm puts between two flags: a blank, a line continuation, a
\* line break, a tab
Separators == {<<" ">>, <<" ", "\\", "\n", "\t">>, <<"\n">>, <<"\t">>}

\* how often flag f is on the line
Count(f) == Cardinality({i \in DOMAIN line : line[i].flag = f})

InitParse ==
    /\ gphase = "start"
    /\ sep = <<>>
    /\ line = <<>>
    /\ output = Preamble
    /\ decoded = FALSE
    /\ parsed = ZeroParse
    /\ BatchIdle
    /\ LifeIdle
    /\ ClusterIdle

\* the output goes on with "kubeadm join <endpoint>"
Gen_Join ==
    /\ gphase = "start" /\ ~decoded
    /\ \E sp \in Separators : sep' = sp
    /\ output' = output \o KubeadmJoin \o <<" ">> \o Endpoint
    /\ gphase' = "line"
    /\ UNCHANGED <<line, decoded, parsed, batchVars, lifeVars, clusterVars>>

\* the output has no join command (kubeadm printed something else)
Gen_NoJoin ==
    /\ gphase = "start" /\ ~decoded
    /\ \E tail \in {<<>>, PleaseNote} : output' = output \o tail
    /\ gphase' = "closed"
    /\ UNCHANGED <<sep, line, decoded, parsed, batchVars, lifeVars, clusterVars>>

\* the join command goes on with flag f, followed by value v if it has one;
\* a flag is given once, the CA hash flag at most twice
Gen_Flag(f, v) ==
    /\ gphase = "line" /\ ~decoded
    /\ Len(line) < MaxGroups
    /\ Count(f) < (IF f = "hash" THEN 2 ELSE 1)
    /\ v \in ValuesOf(f)
    /\ (f = "hash" /\ Count(f) = 1) => v \notin {line[i].val : i \in DOMAIN line}
    /\ line' = Append(line, [flag |-> f, val |-> v])
    /\ output' = output \o sep \o FlagText(f)
                   \o (IF v = "none" THEN <<>> ELSE <<" ">> \o ValueText(v))
    /\ UNCHANGED <<gphase, sep, decoded, parsed, batchVars, lifeVars, clusterVars>>

\* the explanatory sentence that follows the join command
Gen_PleaseNote ==
    /\ gphase = "line" /\ ~decoded
    /\ output' = output \o (IF sep = <<" ">> THEN <<" ">> ELSE <<"\n", "\n">>)
                   \o PleaseNote
    /\ gphase' = "closed"
    /\ UNCHANGED <<sep, line, decoded, parsed, batchVars, lifeVars, clusterVars>>

\* initMaster0 hands the captured output to decodeMaster0Output
Decode ==
    /\ gphase \in {"line", "closed"} /\ ~decoded
    /\ parsed' = decodeMaster0Output(output)
    /\ decoded' = TRUE
    /\ UNCHANGED <<gphase, sep, line, output, batchVars, lifeVars, clusterVars>>

NextParse ==
    \/ Gen_Join
    \/ Gen_NoJoin
    \/ \E f \in FlagNames, v \in {"T", "HA", "HB", "K", "Kextra", "Kshort",
                                 "none"} : Gen_Flag(f, v)
    \/ Gen_PleaseNote
    \/ Decode

SpecParse == InitParse /\ [][NextParse]_vars

\* ------------------------------------------------ the lifecycle controller
\* the clusters: masters <<1, .., a>> and workers <<a+1, .., a+b>>
Clusters ==
    {[m |-> [i \in 1..a |-> i], w |-> [i \in 1..b |-> a + i]] :
        a \in 1..MaxMasters, b \in 0..MaxWorkers}

\* the clusters whose hosts are all workers: the driver is built from any
\* non-empty host list, whatever the roles
NoMasterClusters ==
    {[m |-> <<>>, w |-> [i \in 1..b |-> i]] : b \in 1..MaxWorkers}

Master0 == masters[1]

\* the list l without the addresses of r, in the order of l
RemoveIPs(l, r) == SelectSeq(l, LAMBDA x : x \notin Range(r))

\* an error that is dropped: the code goes on
ReturnErrDropped == UNCHANGED <<pc, opResult>>

\* `return err`
ReturnErr ==
    /\ opResult' = "error"
    /\ pc' = "return"

\* the operation starts with no batch running, no output and no command
LifeStart ==
    /\ BatchIdle
    /\ ParseIdle
    /\ ClusterIdle
    /\ opResult = "running"
    /\ log = <<>>

\* Install with the joins of the workers ahead of those of the masters
InstallOrderWorkersFirst ==
    <<"initKubeadmConfig", "generateCert", "createKubeConfig",
      "CopyStaticFiles", "initMaster0", "joinNodes", "joinMasters",
      "dumpKubeConfigIntoCluster", "return">>

\* the statements of Runtime.Install, in order
InstallOrder ==
    <<"initKubeadmConfig", "generateCert", "createKubeConfig",
      "CopyStaticFiles", "initMaster0", "joinMasters", "joinNodes",
      "dumpKubeConfigIntoCluster", "return">>

\* ScaleUp with the joins of the workers ahead of those of the masters
ScaleUpOrderNodesFirst ==
    <<"LoadKubeadmConfigs", "getJoinTokenHashAndKey", "joinNodes",
      "joinMasters", "return">>

\* the statements of Runtime.ScaleUp, in order
ScaleUpOrder ==
    <<"LoadKubeadmConfigs", "getJoinTokenHashAndKey", "joinMasters",
      "joinNodes", "return">>

OrderOf(o) ==
    CASE o = "Install" -> InstallOrder
      [] o = "ScaleUp" -> ScaleUpOrder
      [] OTHER -> <<"return">>

\* the statement after statement s of the running operation
After(s) ==
    LET order == OrderOf(op)
        i == CHOOSE j \in DOMAIN order : order[j] = s
    IN order[i + 1]

\* a statement that runs one step against master-zero: on success the step
\* is logged and the operation goes on, on failure the operation returns
Master0Step(s, remote) ==
    /\ pc = s
    /\ opResult = "running"
    /\ (remote => masters # <<>>)
    /\ cmds' = IF remote THEN [cmds EXCEPT ![Master0] = Append(@, s)] ELSE cmds
    /\ \E ok \in BOOLEAN :
         IF ok THEN /\ pc' = After(s)
                    /\ log' = Append(log, s)
                    /\ opResult' = opResult
               ELSE /\ ReturnErr
                    /\ log' = log
    /\ UNCHANGED <<bstate, kind, ipList, spawned, loopIP, tpc, failed, egErr,
                   flag, sharedErr, result, rs, lb, endpoint, nextStarted,
                   parseVars, clusterVars, op, masters, workers, argM, argW>>

\* `masters[0]` on an empty master list: the index is out of range and the
\* Go runtime panics, nothing recovers. In initKubeadmConfig the index
\* follows NewKubeadmConfig, whose body is not at hand and may return an
\* error first; in ScaleUp it is the argument of getJoinTokenHashAndKey
Master0_Panic ==
    /\ op \in {"Install", "ScaleUp"} /\ opResult = "running"
    /\ pc \in {"initKubeadmConfig", "getJoinTokenHashAndKey"}
    /\ masters = <<>>
    /\ \E early \in BOOLEAN :
         IF early /\ pc = "initKubeadmConfig"
         THEN ReturnErr
         ELSE /\ opResult' = "panic"
              /\ pc' = "return"
    /\ UNCHANGED <<batchVars, parseVars, clusterVars, op, masters, workers,
                   argM, argW, log>>

\* k.initKubeadmConfig(masters): renders the configuration and writes it to
\* master-zero
Install_initKubeadmConfig == op = "Install" /\ Master0Step("initKubeadmConfig", TRUE)

\* k.generateCert(kubeadmConf, masters[0])
Install_generateCert == op = "Install" /\ Master0Step("generateCert", FALSE)

\* k.createKubeConfig(masters[0])
Install_createKubeConfig == op = "Install" /\ Master0Step("createKubeConfig", FALSE)

\* k.CopyStaticFiles(masters[0:1])
Install_CopyStaticFiles == op = "Install" /\ Master0Step("CopyStaticFiles", TRUE)

\* the remote commands of initMaster0, in order
InitMaster0Cmds ==
    <<"SendJoinMasterKubeConfigs", "setHostAlias", "kubeadmInit",
      "copyAdminConf">>

\* a captured output with the whole join command
JoinOutput ==
    Preamble \o KubeadmJoin \o <<" ">> \o Endpoint
      \o <<" ">> \o FlagToken \o <<" ">> \o TokenValue
      \o <<" ">> \o FlagCACertHash \o <<" ">> \o HashValueA
      \o <<" ">> \o FlagControlPlane
      \o <<" ">> \o FlagCertKey \o <<" ">> \o CertKey
      \o <<" ">> \o PleaseNote

\* what "kubeadm init" may have printed when it exits with status zero
InitOutputs == {JoinOutput, Preamble, Preamble \o PleaseNote}

\* k.initMaster0(kubeadmConf, masters[0]): n of its remote commands succeed;
\* when all do, the output of "kubeadm init" goes to decodeMaster0Output,
\* whose panic is not recovered
Install_initMaster0 ==
    /\ op = "Install" /\ pc = "initMaster0" /\ opResult = "running"
    /\ \E n \in 0..Len(InitMaster0Cmds) :
         IF n < Len(InitMaster0Cmds)
         THEN /\ \E issued \in {n, n + 1} :
                   \* k.Command fails before "kubeadm init" is issued
                   /\ (issued = n) => (n = 2)
                   /\ cmds' = [cmds EXCEPT ![Master0] =
                                  @ \o SubSeq(InitMaster0Cmds, 1, issued)]
              /\ ReturnErr
              /\ UNCHANGED <<log, output, decoded, parsed>>
         ELSE /\ cmds' = [cmds EXCEPT ![Master0] = @ \o InitMaster0Cmds]
              /\ \E out \in InitOutputs :
                   /\ output' = out
                   /\ decoded' = TRUE
                   /\ parsed' = decodeMaster0Output(out)
              /\ IF parsed'.panic
                 THEN /\ opResult' = "panic"
                      /\ pc' = "return"
                      /\ log' = log
                 ELSE /\ opResult' = opResult
                      /\ pc' = After("initMaster0")
                      /\ log' = Append(log, "initMaster0")
    /\ UNCHANGED <<bstate, kind, ipList, spawned, loopIP, tpc, failed, egErr,
                   flag, sharedErr, result, rs, lb, endpoint, nextStarted,
                   gphase, sep, line, clusterVars,
                   op, masters, workers, argM, argW>>

\* the hosts handed to joinMasters: masters[1:] in Install, newMasters in
\* ScaleUp
JoinMastersArg == IF op = "Install" THEN Tail(masters) ELSE argM

\* the hosts handed to joinNodes: workers in Install, newWorkers in ScaleUp
JoinNodesArg == IF op = "Install" THEN workers ELSE argW

\* k.joinMasters(...) is called: one concurrent join per master of the list
Call_joinMasters ==
    /\ pc = "joinMasters" /\ opResult = "running" /\ bstate = "idle"
    /\ BatchStart("joinMasters", JoinMastersArg)
    /\ UNCHANGED <<cmds, rs, lb, endpoint, nextStarted, parseVars, clusterVars, lifeVars>>

\* `if err = k.joinMasters(...); err != nil { return err }`
Return_joinMasters ==
    /\ pc = "joinMasters" /\ opResult = "running" /\ bstate = "returned"
    /\ bstate' = "idle"
    /\ IF result.isErr
       THEN ReturnErr /\ log' = log
       ELSE /\ pc' = After("joinMasters")
            /\ log' = Append(log, "joinMasters")
            /\ opResult' = opResult
    /\ UNCHANGED <<kind, ipList, spawned, loopIP, tpc, failed, egErr, flag,
                   sharedErr, result, cmds, rs, lb, endpoint, nextStarted,
                   parseVars, clusterVars, op, masters, workers, argM, argW>>

\* k.joinNodes(newNodes, masters, ...) up to its loop: nothing to do for an
\* empty list; else initKube on the new nodes, the commands are rendered with
\* the master list as real servers, and the goroutines are started
Call_joinNodes ==
    /\ pc = "joinNodes" /\ opResult = "running" /\ bstate = "idle"
    /\ IF JoinNodesArg = <<>>
       THEN /\ pc' = After("joinNodes")
            /\ log' = Append(log, "joinNodes")
            /\ UNCHANGED <<batchVars, opResult>>
       ELSE /\ cmds' = [h \in IPs |->
                          IF h \in Range(JoinNodesArg)
                          THEN Append(cmds[h], "initKube") ELSE cmds[h]]
            /\ \E ok \in BOOLEAN :
                 IF ok THEN /\ rs' = masters
                            /\ BatchStart("joinNodes", JoinNodesArg)
                            /\ UNCHANGED <<pc, opResult>>
                       ELSE /\ ReturnErr
                            /\ UNCHANGED <<bstate, kind, ipList, spawned,
                                           loopIP, tpc, failed, egErr, flag,
                                           sharedErr, result, rs>>
            /\ UNCHANGED <<lb, endpoint, nextStarted, log>>
    /\ UNCHANGED <<parseVars, clusterVars, op, masters, workers, argM, argW>>

\* `if err = k.joinNodes(...); err != nil { return err }`
Return_joinNodes ==
    /\ pc = "joinNodes" /\ opResult = "running" /\ bstate = "returned"
    /\ bstate' = "idle"
    /\ IF result.isErr
       THEN ReturnErr /\ log' = log
       ELSE /\ pc' = After("joinNodes")
            /\ log' = Append(log, "joinNodes")
            /\ opResult' = opResult
    /\ UNCHANGED <<kind, ipList, spawned, loopIP, tpc, failed, egErr, flag,
                   sharedErr, result, cmds, rs, lb, endpoint, nextStarted,
                   parseVars, clusterVars, op, masters, workers, argM, argW>>

\* k.dumpKubeConfigIntoCluster(masters[0])
Install_dumpKubeConfigIntoCluster ==
    op = "Install" /\ Master0Step("dumpKubeConfigIntoCluster", TRUE)

\* `return nil` at the end of an operation
ReturnNil ==
    /\ pc = "return" /\ opResult = "running"
    /\ opResult' = "nil"
    /\ UNCHANGED <<batchVars, parseVars, clusterVars, op, pc, masters, workers, argM, argW,
                   log>>

\* the steps of the batches of joinMasters and joinNodes
JoinStep ==
    \/ Spawn
    \/ \E i \in DOMAIN ipList : JoinMasters_Task(i)
    \/ \E i \in DOMAIN ipList : JoinNodes_Cmd(i)
    \/ \E i \in DOMAIN ipList : JoinNodes_Check(i)
    \/ Wait

\* a cluster on which Install is invoked
InitInstall ==
    /\ op = "Install"
    /\ pc = "initKubeadmConfig"
    /\ \E c \in Clusters \cup NoMasterClusters :
         masters = c.m /\ workers = c.w
    /\ argM = <<>>
    /\ argW = <<>>
    /\ LifeStart

NextInstall ==
    \/ Install_initKubeadmConfig
    \/ Install_generateCert
    \/ Install_createKubeConfig
    \/ Install_CopyStaticFiles
    \/ Install_initMaster0
    \/ Call_joinMasters
    \/ Return_joinMasters
    \/ Call_joinNodes
    \/ Return_joinNodes
    \/ Install_dumpKubeConfigIntoCluster
    \/ ReturnNil
    \/ JoinStep
    \/ Master0_Panic

SpecInstall == InitInstall /\ [][NextInstall]_vars

\* ------------------------------------------- ScaleUp, ScaleDown and Reset
\* kubeadm_config.LoadKubeadmConfigs(KubeadmFileYml, ...)
ScaleUp_LoadKubeadmConfigs ==
    op = "ScaleUp" /\ Master0Step("LoadKubeadmConfigs", FALSE)

\* k.getJoinTokenHashAndKey(masters[0])
ScaleUp_getJoinTokenHashAndKey ==
    op = "ScaleUp" /\ Master0Step("getJoinTokenHashAndKey", TRUE)

\* a check that counts wrongly and never finds the remainder empty
NoMasterRemainsOffByOne(remain) == Len(remain) < 0

\* `len(remainMasters) == 0`
NoMasterRemains(remain) == Len(remain) = 0

\* the statement of ScaleDown that follows the removal of the workers
AfterWorkers == IF Len(argM) > 0 THEN "confirmMasters" ELSE "return"

\* ScaleDown that leaves the workers to delete alone
FirstRemovalSkipsWorkers == AfterWorkers

\* the statement of ScaleDown that follows the check of the remaining masters
FirstRemoval == IF Len(argW) > 0 THEN "confirmNodes" ELSE AfterWorkers

\* ScaleDown up to its first prompt: the remaining masters are computed and
\* an empty remainder is refused
ScaleDown_Check ==
    /\ op = "ScaleDown" /\ pc = "check" /\ opResult = "running"
    /\ IF NoMasterRemains(RemoveIPs(masters, argM))
       THEN ReturnErr
       ELSE /\ pc' = FirstRemoval
            /\ opResult' = opResult
    /\ UNCHANGED <<batchVars, parseVars, clusterVars, op, masters, workers, argM, argW,
                   log>>

\* confirmDeleteHosts at statement s: the operator accepts, or declines and
\* the operation returns the error
Confirm(s, next) ==
    /\ pc = s /\ opResult = "running"
    /\ \E yes \in BOOLEAN :
         IF yes THEN /\ pc' = next
                     /\ log' = Append(log, "confirmed")
                     /\ opResult' = opResult
                ELSE /\ ReturnErr
                     /\ log' = Append(log, "declined")
    /\ UNCHANGED <<batchVars, parseVars, clusterVars, op, masters, workers, argM, argW>>

\* confirmDeleteHosts(common.NODE, workersToDelete)
ScaleDown_ConfirmNodes == op = "ScaleDown" /\ Confirm("confirmNodes", "deleteNodes")

\* confirmDeleteHosts(common.MASTER, mastersToDelete)
ScaleDown_ConfirmMasters == op = "ScaleDown" /\ Confirm("confirmMasters", "deleteMasters")

\* a Reset that goes from the prompt straight to the masters
ResetTeardownMastersFirst == "deleteMasters"

\* the statement of Reset that follows the accepted prompt
ResetTeardown == "deleteNodes"

\* confirmDeleteHosts("master/node", append(masters, workers...))
Reset_Confirm == op = "Reset" /\ Confirm("confirmAll", ResetTeardown)

\* the hosts handed to deleteNodes and to deleteMasters
DeleteNodesArg == IF op = "ScaleDown" THEN argW ELSE workers
DeleteMastersArg == IF op = "ScaleDown" THEN argM ELSE masters

\* the masters and the workers the operation leaves in the cluster
RemainMasters == IF op = "ScaleDown" THEN RemoveIPs(masters, argM) ELSE <<>>
RemainWorkers == IF op = "ScaleDown" THEN RemoveIPs(workers, argW) ELSE <<>>

\* k.deleteNodes(...) is called: one concurrent removal per worker
Call_deleteNodes ==
    /\ pc = "deleteNodes" /\ opResult = "running" /\ bstate = "idle"
    /\ BatchStart("deleteNodes", DeleteNodesArg)
    /\ UNCHANGED <<cmds, rs, lb, endpoint, nextStarted, parseVars, clusterVars, lifeVars>>

\* `if err := k.deleteNodes(...); err != nil { return err }`
Return_deleteNodes ==
    /\ pc = "deleteNodes" /\ opResult = "running" /\ bstate = "returned"
    /\ bstate' = "idle"
    /\ IF result.isErr
       THEN ReturnErr /\ log' = log
       ELSE /\ pc' = IF op = "ScaleDown" THEN AfterWorkers ELSE "deleteMasters"
            /\ log' = Append(log, "deleteNodes")
            /\ opResult' = opResult
    /\ UNCHANGED <<kind, ipList, spawned, loopIP, tpc, failed, egErr, flag,
                   sharedErr, result, cmds, rs, lb, endpoint, nextStarted,
                   parseVars, clusterVars, op, masters, workers, argM, argW>>

\* k.deleteMasters(...) is called: one concurrent removal per master
Call_deleteMasters ==
    /\ pc = "deleteMasters" /\ opResult = "running" /\ bstate = "idle"
    /\ BatchStart("deleteMasters", DeleteMastersArg)
    /\ UNCHANGED <<cmds, rs, lb, endpoint, nextStarted, parseVars, clusterVars, lifeVars>>

\* the removals of deleteMasters are over: an error is returned, else the
\* load balancer of the remaining workers is to be rendered anew
DeleteMasters_Removed ==
    /\ pc = "deleteMasters" /\ opResult = "running" /\ bstate = "returned"
    /\ bstate' = "idle"
    /\ IF result.isErr
       THEN ReturnErr /\ log' = log
       ELSE /\ pc' = "reapplyLB"
            /\ log' = Append(log, "deleteMasters")
            /\ opResult' = opResult
    /\ UNCHANGED <<kind, ipList, spawned, loopIP, tpc, failed, egErr, flag,
                   sharedErr, result, cmds, rs, lb, endpoint, nextStarted,
                   parseVars, clusterVars, op, masters, workers, argM, argW>>

\* deleteMasters renders the backend set of the remaining masters on every
\* remaining worker
DeleteMasters_ReapplyLB ==
    /\ pc = "reapplyLB" /\ opResult = "running"
    /\ cmds' = [h \in IPs |-> IF h \in Range(RemainWorkers)
                              THEN Append(cmds[h], "lvscare") ELSE cmds[h]]
    /\ \E ok \in BOOLEAN :
         IF ok THEN /\ lb' = [h \in IPs |-> IF h \in Range(RemainWorkers)
                                            THEN Range(RemainMasters)
                                            ELSE lb[h]]
                    /\ rs' = RemainMasters
                    /\ pc' = "return"
                    /\ opResult' = opResult
               ELSE /\ ReturnErr
                    /\ UNCHANGED <<lb, rs>>
    /\ endpoint' = endpoint
    /\ UNCHANGED <<bstate, kind, ipList, spawned, loopIP, tpc, failed, egErr,
                   flag, sharedErr, result, nextStarted,
                   parseVars, clusterVars, op, masters, workers, argM, argW, log>>

\* the goroutine of deleteNodes / deleteMasters: the removal of one host,
\* its error naming the host
Delete_Task(i) ==
    /\ Runnable(i) /\ kind \in {"deleteNodes", "deleteMasters"}
    /\ \E ok \in BOOLEAN :
         /\ failed' = IF ok THEN failed ELSE failed \cup {i}
         /\ egErr' = IF ok THEN egErr ELSE ErrOnce(egErr, Err({ipList[i]}))
    /\ Issue(ipList[i], Steps(kind)[1])
    /\ tpc' = [tpc EXCEPT ![i] = At(1, "done")]
    /\ UNCHANGED <<bstate, kind, ipList, spawned, loopIP, flag, sharedErr,
                   result, rs, lb, endpoint, nextStarted,
                   parseVars, clusterVars, lifeVars>>

\* the lists handed to ScaleDown as mastersToDelete: any addresses, also
\* repeated ones and ones that are no masters
ArgLists == UNION {[1..k -> IPs] : k \in 0..MaxArgs}

\* the last k elements of list l
Suffix(l, k) == SubSeq(l, Len(l) - k + 1, Len(l))

\* the load balancer of each worker of ws points at the masters ms
LBOf(ws, ms) == [h \in IPs |-> IF h \in Range(ws) THEN Range(ms) ELSE {}]

\* ScaleUp on a driver built from the desired cluster: the new hosts are the
\* last of their role, and the old workers balance over the old masters
InitScaleUp ==
    /\ op = "ScaleUp"
    /\ pc = "LoadKubeadmConfigs"
    /\ \E c \in Clusters \cup NoMasterClusters :
         /\ masters = c.m /\ workers = c.w
         /\ \E k \in 0..(IF c.m = <<>> THEN 0 ELSE Len(c.m) - 1),
               j \in 0..Len(c.w) :
              /\ argM = Suffix(c.m, k)
              /\ argW = Suffix(c.w, j)
              /\ lb = LBOf(SubSeq(c.w, 1, Len(c.w) - j),
                           SubSeq(c.m, 1, Len(c.m) - k))

InitScaleDown ==
    /\ op = "ScaleDown"
    /\ pc = "check"
    /\ \E c \in Clusters :
         /\ masters = c.m /\ workers = c.w
         /\ argM \in ArgLists
         /\ \E j \in 0..Len(c.w) : argW = Suffix(c.w, j)
         /\ lb = LBOf(c.w, c.m)

InitReset ==
    /\ op = "Reset"
    /\ pc = "confirmAll"
    /\ \E c \in Clusters :
         /\ masters = c.m /\ workers = c.w
         /\ lb = LBOf(c.w, c.m)
    /\ argM = <<>>
    /\ argW = <<>>

\* Runtime.Upgrade of the kubeadm runtime is invoked
InitKubeUpgrade ==
    /\ op = "Upgrade"
    /\ pc = "Upgrade"
    /\ \E c \in Clusters :
         /\ masters = c.m /\ workers = c.w
         /\ lb = LBOf(c.w, c.m)
    /\ argM = <<>>
    /\ argW = <<>>

\* Runtime.Upgrade: `panic("now not support upgrade")`, its only statement
Upgrade_Panic ==
    /\ op = "Upgrade" /\ pc = "Upgrade" /\ opResult = "running"
    /\ opResult' = "panic"
    /\ pc' = "return"
    /\ UNCHANGED <<batchVars, parseVars, clusterVars, op, masters, workers,
                   argM, argW, log>>

\* a cluster on which ScaleUp, ScaleDown, Reset or Upgrade is invoked
InitScale ==
    /\ (InitScaleUp \/ InitScaleDown \/ InitReset \/ InitKubeUpgrade)
    /\ bstate = "idle"
    /\ kind = "none"
    /\ ipList = <<>>
    /\ spawned = 0
    /\ loopIP = 0
    /\ tpc = <<>>
    /\ failed = {}
    /\ egErr = NoErr
    /\ flag = FALSE
    /\ sharedErr = NoErr
    /\ result = NoErr
    /\ cmds = [h \in IPs |-> <<>>]
    /\ rs = <<>>
    /\ endpoint = [h \in IPs |-> IF lb[h] # {} THEN VS ELSE <<>>]
    /\ nextStarted = FALSE
    /\ ParseIdle
    /\ ClusterIdle
    /\ opResult = "running"
    /\ log = <<>>

NextScale ==
    \/ ScaleUp_LoadKubeadmConfigs
    \/ ScaleUp_getJoinTokenHashAndKey
    \/ Call_joinMasters
    \/ Return_joinMasters
    \/ Call_joinNodes
    \/ Return_joinNodes
    \/ ScaleDown_Check
    \/ ScaleDown_ConfirmNodes
    \/ ScaleDown_ConfirmMasters
    \/ Reset_Confirm
    \/ Call_deleteNodes
    \/ Return_deleteNodes
    \/ Call_deleteMasters
    \/ DeleteMasters_Removed
    \/ DeleteMasters_ReapplyLB
    \/ \E i \in DOMAIN ipList : Delete_Task(i)
    \/ ReturnNil
    \/ JoinStep
    \/ Master0_Panic
    \/ Upgrade_Panic

SpecScale == InitScale /\ [][NextScale]_vars

\* ---------------------------------------------------------- the k0s upgrade
\* an upgrade that starts the service before it stops it
UpgradeCmdsStartFirst == <<"chmod", "mv", "k0s start", "k0s stop">>

\* the commands one CmdAsync of the upgrade runs on a host, in order
UpgradeCmds == <<"chmod", "mv", "k0s stop", "k0s start">>

\* an upgrade that takes the workers before the masters
UpgradeOrderNodesFirst ==
    <<"upgradeNodes", "upgradeMaster0", "upgradeMasters", "return">>

\* the statements of Runtime.upgrade, in order
UpgradeOrder ==
    <<"upgradeMaster0", "upgradeMasters", "upgradeNodes", "return">>

\* the host list each statement of upgrade hands over
TierHosts(s) ==
    CASE s = "upgradeMaster0" -> <<masters[1]>>
      [] s = "upgradeMasters" -> Tail(masters)
      [] s = "upgradeNodes" -> workers
      [] OTHER -> <<>>

\* a CmdAsync that returns as soon as its first command ran
CmdAsyncReturnsEarly(n) == n >= 1

\* ssh.CmdAsync(ip, cmds...) returns nil when the last of its commands ran
CmdAsyncReturns(n) == n = Len(UpgradeCmds)

\* one step of the loop of upgradeMasters / upgradeNodes on the host at
\* hand: before the first command the ssh client of the host is fetched,
\* then CmdAsync runs the next command; the loop goes to the next host when
\* CmdAsync has returned nil, and any error ends the upgrade; `failed` holds
\* the host whose client or command failed
Upgrade_Host ==
    /\ op = "upgrade" /\ opResult = "running"
    /\ pc \in {"upgradeMaster0", "upgradeMasters", "upgradeNodes"}
    /\ argM # <<>>
    /\ LET h == Head(argM)
           n == Len(cmds[h])
       IN \E client \in BOOLEAN :
            IF n = 0 /\ ~client
            THEN /\ ReturnErr
                 /\ failed' = failed \cup {h}
                 /\ UNCHANGED <<cmds, log, argM>>
            ELSE /\ cmds' = [cmds EXCEPT ![h] = Append(@, UpgradeCmds[n + 1])]
                 /\ log' = IF n = 0 THEN Append(log, h) ELSE log
                 /\ \E ok \in BOOLEAN :
                      IF ~ok
                      THEN /\ ReturnErr
                           /\ failed' = failed \cup {h}
                           /\ argM' = argM
                      ELSE /\ argM' = IF CmdAsyncReturns(n + 1)
                                      THEN Tail(argM) ELSE argM
                           /\ UNCHANGED <<pc, opResult, failed>>
    /\ UNCHANGED <<bstate, kind, ipList, spawned, loopIP, tpc, egErr,
                   flag, sharedErr, result, rs, lb, endpoint, nextStarted,
                   parseVars, clusterVars, op, masters, workers, argW>>

\* the loop is over, upgradeMasters / upgradeNodes returns nil and upgrade
\* goes on to its next statement
Upgrade_NextTier ==
    /\ op = "upgrade" /\ opResult = "running"
    /\ pc \in {"upgradeMaster0", "upgradeMasters", "upgradeNodes"}
    /\ argM = <<>>
    /\ LET i == CHOOSE j \in DOMAIN UpgradeOrder : UpgradeOrder[j] = pc IN
         /\ pc' = UpgradeOrder[i + 1]
         /\ argM' = TierHosts(UpgradeOrder[i + 1])
    /\ UNCHANGED <<batchVars, parseVars, clusterVars, op, masters, workers, argW, opResult,
                   log>>

\* a cluster on which upgrade is invoked
InitUpgrade ==
    /\ op = "upgrade"
    /\ pc = UpgradeOrder[1]
    /\ \E c \in Clusters : masters = c.m /\ workers = c.w
    /\ argM = TierHosts(pc)
    /\ argW = <<>>
    /\ LifeStart

NextUpgrade ==
    \/ Upgrade_Host
    \/ Upgrade_NextTier
    \/ ReturnNil

SpecUpgrade == InitUpgrade /\ [][NextUpgrade]_vars

\* ------------------------------------------- the host execution driver
\* the keys of d.sshConfigs: one ssh client per address of the host list
SSHConfigs == Range(masters) \cup Range(workers)

\* a look-up that finds a client for any address
HasClientForAny(h) == TRUE

\* `client := d.sshConfigs[host.String()]` is not nil
HasClient(h) == h \in SSHConfigs

\* a driver operation on host h: without a client for h the error that names
\* h is returned; else the operation of the ssh client goes to the host and
\* its error is returned
DriverOp(name, h) ==
    /\ pc = "ready"
    /\ pc' = name
    /\ argM' = <<h>>
    /\ IF ~HasClient(h)
       THEN /\ result' = Err({h})
            /\ cmds' = cmds
       ELSE /\ Issue(h, name)
            /\ \E ok \in BOOLEAN : result' = IF ok THEN NoErr ELSE Err({})
    /\ UNCHANGED <<bstate, kind, ipList, spawned, loopIP, tpc, failed, egErr,
                   flag, sharedErr, rs, lb, endpoint, nextStarted,
                   parseVars, clusterVars, op, masters, workers, argW, opResult, log>>

Driver_Copy == \E h \in IPs : op = "driver" /\ DriverOp("Copy", h)
Driver_CopyR == \E h \in IPs : op = "driver" /\ DriverOp("CopyR", h)
Driver_CmdAsync == \E h \in IPs : op = "driver" /\ DriverOp("CmdAsync", h)
Driver_Cmd == \E h \in IPs : op = "driver" /\ DriverOp("Cmd", h)
Driver_CmdToString == \E h \in IPs : op = "driver" /\ DriverOp("CmdToString", h)
Driver_IsFileExist == \E h \in IPs : op = "driver" /\ DriverOp("IsFileExist", h)
Driver_IsDirExist == \E h \in IPs : op = "driver" /\ DriverOp("IsDirExist", h)
Driver_GetPlatform == \E h \in IPs : op = "driver" /\ DriverOp("GetPlatform", h)
Driver_Ping == \E h \in IPs : op = "driver" /\ DriverOp("Ping", h)

\* a driver built by NewInfraDriver for a cluster, about to be called
InitDriver ==
    /\ op = "driver"
    /\ pc = "ready"
    /\ \E c \in Clusters : masters = c.m /\ workers = c.w
    /\ argM = <<>>
    /\ argW = <<>>
    /\ LifeStart

NextDriver ==
    \/ Driver_Copy
    \/ Driver_CopyR
    \/ Driver_CmdAsync
    \/ Driver_Cmd
    \/ Driver_CmdToString
    \/ Driver_IsFileExist
    \/ Driver_IsDirExist
    \/ Driver_GetPlatform
    \/ Driver_Ping

SpecDriver == InitDriver /\ [][NextDriver]_vars

\* ----------------------------------------- a batch with a silent host
\* the goroutine of SSHInfraDriver.Execute calls f(host) and the host never
\* responds: Execute hands f no deadline and keeps no context, so the call
\* does not return
Execute_Hang(i) ==
    /\ Runnable(i) /\ kind = "Execute" /\ tpc[i].phase = "run"
    /\ Issue(ipList[i], "f")
    /\ tpc' = [tpc EXCEPT ![i] = At(1, "hung")]
    /\ UNCHANGED <<bstate, kind, ipList, spawned, loopIP, failed, egErr, flag,
                   sharedErr, result, rs, lb, endpoint, nextStarted,
                   parseVars, clusterVars, lifeVars>>

\* SSHInfraDriver.Execute is called with a host list
InitTimeout ==
    /\ InitBatch
    /\ kind = "Execute"

NextTimeout ==
    \/ Spawn
    \/ \E i \in DOMAIN ipList : Execute_Task(i)
    \/ \E i \in DOMAIN ipList : Execute_Hang(i)
    \/ Wait

\* the Go scheduler runs every goroutine that can take a step
SpecTimeout == InitTimeout /\ [][NextTimeout]_vars /\ WF_vars(NextTimeout)

\* ------------------------------------- the cluster description of a scale
\* (cmd/sealer/cmd/utils/cluster.go)

\* v2.Host, with its IPS and Roles and no Env
HostEntry(ips, roles) == [ips |-> ips, roles |-> roles, env |-> <<>>]

\* cluster.GetMasterIPList() / GetNodeIPList(): the IPS of the hosts that
\* hold the role, in the order of the host list
RECURSIVE IPListByRole(_, _)
IPListByRole(hs, role) ==
    IF hs = <<>> THEN <<>>
    ELSE (IF role \in Head(hs).roles THEN Head(hs).ips ELSE <<>>)
         \o IPListByRole(Tail(hs), role)

\* netutils.IsInIPList over the addresses of a list
AnyInIPList(ips, list) == \E i \in DOMAIN ips : ips[i] \in Range(list)

\* the addresses a cluster description and the flags of a scale draw from
ClusterIPs == 1..MaxMasters
\* joinMasters, joinWorkers, mastersToDelete, workersToDelete: any
\* addresses, also repeated ones
ScaleLists == UNION {[1..k -> ClusterIPs] : k \in 0..MaxArgs}
\* scaleFlags.CustomEnv
CustomEnvs == {<<>>, <<<<"k", "v">>>>}

\* the end of a construct function
ConstructReturn(name, a, b, res) ==
    /\ pc' = "return"
    /\ argM' = a
    /\ argW' = b
    /\ opResult' = res
    /\ log' = <<name>>
    /\ UNCHANGED <<batchVars, parseVars, driver, cf, op, masters, workers>>

\* ConstructClusterForScaleUp(cluster, scaleFlags, joinMasters, joinWorkers)
ConstructClusterForScaleUp ==
    /\ op = "construct" /\ pc = "ready"
    /\ \E jm \in ScaleLists, jw \in ScaleLists, ce \in CustomEnvs :
         LET dupM == jm # <<>>
                     /\ AnyInIPList(jm, IPListByRole(hosts, "master"))
             hosts1 == IF jm # <<>> /\ ~dupM
                       THEN Append(hosts, HostEntry(jm, {"master"}))
                       ELSE hosts
             dupW == jw # <<>>
                     /\ AnyInIPList(jw, IPListByRole(hosts1, "node"))
         IN /\ env' = env \o ce
            /\ hosts' = IF dupM THEN hosts
                        ELSE IF jw # <<>> /\ ~dupW
                             THEN Append(hosts1, HostEntry(jw, {"node"}))
                             ELSE hosts1
            /\ ConstructReturn("ConstructClusterForScaleUp", jm, jw,
                               IF dupM \/ dupW THEN "error" ELSE "nil")

\* the IPS of the hosts of role `role` without the addresses of `del`
RemoveFromRole(hs, role, del) ==
    [i \in DOMAIN hs |->
        IF del # <<>> /\ role \in hs[i].roles
        THEN [hs[i] EXCEPT !.ips = RemoveIPs(hs[i].ips, del)]
        ELSE hs[i]]

\* ConstructClusterForScaleDown(cluster, mastersToDelete, workersToDelete)
ConstructClusterForScaleDown ==
    /\ op = "construct" /\ pc = "ready"
    /\ \E md \in ScaleLists, wd \in ScaleLists :
         /\ hosts' = SelectSeq(
                RemoveFromRole(RemoveFromRole(hosts, "master", md), "node", wd),
                LAMBDA h : h.ips # <<>>)
         /\ env' = env
         /\ ConstructReturn("ConstructClusterForScaleDown", md, wd, "nil")

\* a cluster description without a repeated address in the list of a role:
\* the masters, then the nodes if there are any; the first host may hold
\* both roles
InitConstruct ==
    /\ op = "construct"
    /\ pc = "ready"
    /\ \E a \in 1..(MaxMasters - 1), both \in BOOLEAN,
          w \in {<<>>, <<MaxMasters>>} :
         hosts = <<HostEntry([i \in 1..a |-> i],
                             IF both THEN {"master", "node"} ELSE {"master"})>>
                 \o (IF w = <<>> THEN <<>> ELSE <<HostEntry(w, {"node"})>>)
    /\ env \in {<<>>, <<<<"a", "b">>>>}
    /\ driver = NoDriver
    /\ cf = NoClusterFile
    /\ masters = <<>>
    /\ workers = <<>>
    /\ argM = <<>>
    /\ argW = <<>>
    /\ opResult = "running"
    /\ log = <<>>
    /\ BatchIdle
    /\ ParseIdle

NextConstruct ==
    \/ ConstructClusterForScaleUp
    \/ ConstructClusterForScaleDown

SpecConstruct == InitConstruct /\ [][NextConstruct]_vars

\* --------------------------------------- the construction of the driver
\* (NewInfraDriver and the accessors of SSHInfraDriver)

\* the IPv6 address of host entry j; the addresses of IPs are IPv4
V6(j) == NumIPs + NumIPs + j

\* k8snet.IsIPv4(ip)
IsIPv4(ip) == ip <= NumIPs

\* a check that looks at the first address only
SameFamilyAsItself(list) == \A i \in DOMAIN list : IsIPv4(list[1]) = IsIPv4(list[1])

\* checkAllHostsSameFamily(nodeList) returns nil
SameFamily(list) == \A i \in DOMAIN list : IsIPv4(list[i]) = IsIPv4(list[1])

\* ret.hosts: the IPS of the host entries, appended in order
RECURSIVE AllIPs(_)
AllIPs(hs) == IF hs = <<>> THEN <<>> ELSE Head(hs).ips \o AllIPs(Tail(hs))

\* the values of key k in the entries of an environment list, in order
RECURSIVE ValuesOfKey(_, _)
ValuesOfKey(list, k) ==
    IF list = <<>> THEN <<>>
    ELSE (IF Head(list)[1] = k THEN <<Head(list)[2]>> ELSE <<>>)
         \o ValuesOfKey(Tail(list), k)

\* ConvertEnv(envList): a key of one value maps to the value, a key of
\* several values to their list
ConvertEnv(list) ==
    [k \in {list[i][1] : i \in DOMAIN list} |->
        LET vs == ValuesOfKey(list, k)
        IN IF Len(vs) = 1 THEN vs[1] ELSE vs]

\* a merge in which the global entries win over the host's
mergeListGlobalWins(hostEnv, globalEnv) ==
    [k \in DOMAIN hostEnv \cup DOMAIN globalEnv |->
        IF k \in DOMAIN globalEnv THEN globalEnv[k] ELSE hostEnv[k]]

\* mergeList(hostEnv, globalEnv): the host's entries, and the global ones
\* for the keys the host does not set
mergeList(hostEnv, globalEnv) ==
    IF DOMAIN hostEnv = {} THEN globalEnv
    ELSE [k \in DOMAIN hostEnv \cup DOMAIN globalEnv |->
            IF k \in DOMAIN hostEnv THEN hostEnv[k] ELSE globalEnv[k]]

\* m[k] = v of a Go map
Put(m, k, v) == [x \in DOMAIN m \cup {k} |-> IF x = k THEN v ELSE m[x]]

\* the slice a role is mapped to: unset, a view of the IPS array of host
\* entry `base` with `used` cells after its end, or an array of its own
NoSlice == [set |-> FALSE, shared |-> FALSE, base |-> 0, used |-> 0,
            own |-> <<>>]

\* the addresses a role's slice shows
Visible(acc, hs, r) ==
    LET s == acc.rl[r]
    IN IF ~s.set THEN <<>>
       ELSE IF s.shared
            THEN hs[s.base].ips \o SubSeq(acc.spare[s.base], 1, s.used)
            ELSE s.own

\* one pass of the inner loop of "initialize roleHostsMap": the first host
\* of a role hands its IPS slice over, a later one is appended, in place
\* where the capacity of the slice allows and into a new array otherwise
AddRole(acc, hs, sc, i, r) ==
    LET s == acc.rl[r]
        l == hs[i].ips
    IN IF ~s.set
       THEN [acc EXCEPT !.rl[r] = [set |-> TRUE, shared |-> TRUE, base |-> i,
                                   used |-> 0, own |-> <<>>]]
       ELSE IF s.shared /\ s.used + Len(l) <= sc[s.base]
            THEN [acc EXCEPT
                    !.spare[s.base] =
                        [k \in DOMAIN @ |->
                            IF k > s.used /\ k <= s.used + Len(l)
                            THEN l[k - s.used] ELSE @[k]],
                    !.rl[r].used = s.used + Len(l)]
            ELSE [acc EXCEPT !.rl[r] = [set |-> TRUE, shared |-> FALSE,
                                        base |-> 0, used |-> 0,
                                        own |-> Visible(acc, hs, r) \o l]]

\* the loop over cluster.Spec.Hosts from entry i on
RECURSIVE RoleFold(_, _, _, _)
RoleFold(acc, hs, sc, i) ==
    IF i > Len(hs) THEN acc
    ELSE LET a1 == IF "master" \in hs[i].roles
                   THEN AddRole(acc, hs, sc, i, "master") ELSE acc
             a2 == IF "node" \in hs[i].roles
                   THEN AddRole(a1, hs, sc, i, "node") ELSE a1
         IN RoleFold(a2, hs, sc, i + 1)

\* ret.roleHostsMap when the loop is over; sc[i] is the capacity the IPS
\* slice of entry i has beyond its length
RoleHostsMap(hs, sc) ==
    LET final == RoleFold([spare |-> [i \in DOMAIN hs |->
                                         [k \in 1..sc[i] |-> 0]],
                           rl |-> [r \in {"master", "node"} |-> NoSlice]],
                          hs, sc, 1)
    IN [r \in {"master", "node"} |-> Visible(final, hs, r)]

\* the last host entry that holds address ip
HostOf(hs, ip) ==
    hs[CHOOSE i \in DOMAIN hs :
          /\ ip \in Range(hs[i].ips)
          /\ \A j \in DOMAIN hs : ip \in Range(hs[j].ips) => j <= i]

\* fmt.Sprintf("%s=%s", common.EnvHostIPFamily, k8snet.IPv6)
HostIPFamilyEnv == <<"HostIPFamily", "6">>

\* NewInfraDriver(cluster)
NewInfraDriver ==
    /\ op = "infra" /\ pc = "new"
    /\ \E sc \in [DOMAIN hosts -> 0..MaxSpare], reg \in {"local", "external"} :
         LET all == AllIPs(hosts) IN
         IF all = <<>> \/ ~SameFamily(all)
         THEN /\ driver' = NoDriver
              /\ env' = env
              /\ ReturnErr
         ELSE LET env1 == IF ~IsIPv4(all[1])
                             /\ HostIPFamilyEnv \notin Range(env)
                          THEN Append(env, HostIPFamilyEnv) ELSE env
                  ce == ConvertEnv(env1)
              IN /\ env' = env1
                 /\ driver' =
                      [built |-> TRUE,
                       hosts |-> all,
                       sshConfigs |-> Range(all),
                       roleHostsMap |-> RoleHostsMap(hosts, sc),
                       clusterEnv |-> ce,
                       hostEnvMap |->
                          [ip \in Range(all) |->
                              mergeList(ConvertEnv(HostOf(hosts, ip).env), ce)],
                       registry |-> reg]
                 /\ pc' = "built"
                 /\ opResult' = opResult
    /\ UNCHANGED <<batchVars, parseVars, hosts, cf, op, masters, workers, argM,
                   argW, log>>

\* d.GetHostEnv(host), called for a host of the driver
GetHostEnv ==
    /\ op = "infra" /\ pc = "built"
    /\ \E h \in Range(driver.hosts) :
         /\ driver' = IF "HostIP" \in DOMAIN driver.hostEnvMap[h]
                      THEN driver
                      ELSE [driver EXCEPT !.hostEnvMap[h] = Put(@, "HostIP", h)]
         /\ log' = <<"GetHostEnv", h>>
    /\ UNCHANGED <<batchVars, parseVars, hosts, env, cf, op, pc, masters, workers,
                   argM, argW, opResult>>

\* d.GetClusterEnv()
GetClusterEnv ==
    /\ op = "infra" /\ pc = "built"
    /\ LET e == driver.clusterEnv
           reg == driver.registry
           e1 == IF "RegistryDomain" \in DOMAIN e THEN e
                 ELSE Put(e, "RegistryDomain", <<reg, "Domain">>)
           e2 == IF "RegistryPort" \in DOMAIN e THEN e1
                 ELSE Put(e1, "RegistryPort", <<reg, "Port">>)
           e3 == IF "RegistryURL" \in DOMAIN e THEN e2
                 ELSE Put(e2, "RegistryURL", <<reg, "Domain", "Port">>)
       IN driver' = IF "RegistryDomain" \in DOMAIN e
                       /\ "RegistryPort" \in DOMAIN e
                    THEN driver
                    ELSE [driver EXCEPT !.clusterEnv = e3]
    /\ log' = <<"GetClusterEnv">>
    /\ UNCHANGED <<batchVars, parseVars, hosts, env, cf, op, pc, masters, workers,
                   argM, argW, opResult>>

\* d.GetHostIPListByRole(role): the list is handed to the caller
GetHostIPListByRole ==
    /\ op = "infra" /\ pc = "built"
    /\ \E r \in {"master", "node"} :
         /\ argM' = driver.roleHostsMap[r]
         /\ log' = <<"GetHostIPListByRole", r>>
    /\ UNCHANGED <<batchVars, parseVars, clusterVars, op, pc, masters,
                   workers, argW, opResult>>

\* the cluster descriptions a driver is built from: up to MaxMasters host
\* entries, entry j with one address, of either family, and one or both
\* roles; the cluster environment may set the registry keys
InitInfra ==
    /\ op = "infra"
    /\ pc = "new"
    /\ \E n \in 0..MaxMasters :
         \E v4 \in [1..n -> BOOLEAN],
            rl \in [1..n -> {{"master"}, {"node"}, {"master", "node"}}] :
            hosts = [j \in 1..n |->
                       [ips |-> <<IF v4[j] THEN j ELSE V6(j)>>,
                        roles |-> rl[j], env |-> <<>>]]
    /\ env \in {<<>>, <<<<"RegistryDomain", "d">>, <<"RegistryPort", "p">>>>}
    /\ driver = NoDriver
    /\ cf = NoClusterFile
    /\ masters = <<>>
    /\ workers = <<>>
    /\ argM = <<>>
    /\ argW = <<>>
    /\ opResult = "running"
    /\ log = <<>>
    /\ BatchIdle
    /\ ParseIdle

NextInfra ==
    \/ NewInfraDriver
    \/ GetHostEnv
    \/ GetClusterEnv
    \/ GetHostIPListByRole

SpecInfra == InitInfra /\ [][NextInfra]_vars

\* Runtime.Install is invoked once more on the cluster a first Install
\* brought to Ready: the method keeps no record of the first run and tests
\* no state of the hosts, it starts again at its first statement. The word
\* "Install" in the log marks the second invocation; two runs are enough
Install_Again ==
    /\ op = "Install" /\ pc = "return" /\ opResult = "nil"
    /\ "Install" \notin Range(log)
    /\ pc' = "initKubeadmConfig"
    /\ opResult' = "running"
    /\ log' = Append(log, "Install")
    /\ UNCHANGED <<batchVars, parseVars, clusterVars, op, masters, workers,
                   argM, argW>>

NextReinstall ==
    \/ Install_initKubeadmConfig
    \/ Install_generateCert
    \/ Install_createKubeConfig
    \/ Install_CopyStaticFiles
    \/ Install_initMaster0
    \/ Call_joinMasters
    \/ Return_joinMasters
    \/ Call_joinNodes
    \/ Return_joinNodes
    \/ Install_dumpKubeConfigIntoCluster
    \/ ReturnNil
    \/ JoinStep
    \/ Master0_Panic
    \/ Install_Again

SpecReinstall == InitInstall /\ [][NextReinstall]_vars

\* ---------------------------------------------------------- sealer apply
\* strings.Diff(current, desired) as apply reads its two results: the
\* addresses to join are those of the desired list the current list lacks,
\* the addresses to delete those of the current list the desired list lacks
Diff(old, new) == [join |-> RemoveIPs(new, old), delete |-> RemoveIPs(old, new)]

\* the master and node lists of a desired Clusterfile
DesiredLists == SeqsUpTo(ClusterIPs, MaxArgs)

\* the four results of the two calls of Diff in RunE
ApplyDiff ==
    [mj |-> Diff(masters, argM).join, md |-> Diff(masters, argM).delete,
     nj |-> Diff(workers, argW).join, nd |-> Diff(workers, argW).delete]

\* `if len(md) > 0 || len(nd) > 0`: the warning "scale down not supported:
\* ..., skip them" is written, and nothing else is done with md and nd
ScaleDownWarning ==
    IF ApplyDiff.md # <<>> \/ ApplyDiff.nd # <<>>
    THEN <<"scale down not supported">> ELSE <<>>

\* an outcome of RunE that leaves the cluster as it is
ApplyReturn(res) ==
    /\ opResult' = res
    /\ pc' = "return"
    /\ UNCHANGED <<batchVars, parseVars, clusterVars, op, masters, workers,
                   argM, argW, log>>

\* utils.GetCurrentCluster(client) fails
Apply_NoCurrentCluster ==
    /\ op = "apply" /\ pc = "RunE" /\ opResult = "running"
    /\ ApplyReturn("error")

\* `if len(mj) == 0 && len(md) == 0 && len(nj) == 0 && len(nd) == 0`:
\* "No need scale, completed"
Apply_NoNeedScale ==
    /\ op = "apply" /\ pc = "RunE" /\ opResult = "running"
    /\ ApplyDiff = [mj |-> <<>>, md |-> <<>>, nj |-> <<>>, nd |-> <<>>]
    /\ ApplyReturn("nil")

\* `if len(md) > 0`: "make sure all masters' ip exist in your clusterfile"
Apply_MasterMissing ==
    /\ op = "apply" /\ pc = "RunE" /\ opResult = "running"
    /\ ApplyDiff.md # <<>>
    /\ opResult' = "error"
    /\ pc' = "return"
    /\ log' = ScaleDownWarning
    /\ UNCHANGED <<batchVars, parseVars, clusterVars, op, masters, workers,
                   argM, argW>>

\* the rest of RunE: the addresses to delete are skipped with the warning,
\* the driver is built, and scaleUpCluster is called
\* with the addresses to join; its success leaves the joined hosts in the
\* cluster
Apply_ScaleUp ==
    /\ op = "apply" /\ pc = "RunE" /\ opResult = "running"
    /\ ApplyDiff # [mj |-> <<>>, md |-> <<>>, nj |-> <<>>, nd |-> <<>>]
    /\ ApplyDiff.md = <<>>
    /\ \E ok \in BOOLEAN :
         IF ok
         THEN /\ masters' = masters \o ApplyDiff.mj
              /\ workers' = workers \o ApplyDiff.nj
              /\ log' = Append(ScaleDownWarning, "scaleUpCluster")
              /\ opResult' = "nil"
         ELSE /\ opResult' = "error"
              /\ log' = ScaleDownWarning
              /\ UNCHANGED <<masters, workers>>
    /\ pc' = "return"
    /\ UNCHANGED <<batchVars, parseVars, clusterVars, op, argM, argW>>

\* apply with a client: the current cluster and the lists of the desired
\* Clusterfile
InitApply ==
    /\ op = "apply"
    /\ pc = "RunE"
    /\ \E c \in Clusters : masters = c.m /\ workers = c.w
    /\ argM \in DesiredLists
    /\ argW \in DesiredLists
    /\ LifeStart

NextApply ==
    \/ Apply_NoCurrentCluster
    \/ Apply_NoNeedScale
    \/ Apply_MasterMissing
    \/ Apply_ScaleUp

SpecApply == InitApply /\ [][NextApply]_vars

\* ------------------------------------------------- kubeVersion.Compare
\* A kubeVersion is a []string, one string per part of the version. A part
\* is modelled as the sequence of its characters: the digits 0..9, and
\* Letter for any other character
Letter == 10

\* the parts tried: "", "1", "9", "10" and "x"
Parts == {<<>>, <<1>>, <<9>>, <<1, 0>>, <<Letter>>}

\* the versions tried: one to three parts, [""] among them
Versions == UNION {[1..k -> Parts] : k \in 1..3}

\* a part is a decimal number: it is not empty and all its characters are
\* digits
IsNumber(p) == p # <<>> /\ \A i \in DOMAIN p : p[i] < Letter

\* the number a part denotes
RECURSIVE Atoi(_)
Atoi(p) ==
    IF p = <<>> THEN 0
    ELSE Atoi(SubSeq(p, 1, Len(p) - 1)) * 10 + p[Len(p)]

\* a part read as text instead of as a number: the rank of the part in the
\* order of strings
RECURSIVE AsText(_)
AsText(p) ==
    IF p = <<>> THEN 0
    ELSE (p[1] + 1) * 100 + AsText(Tail(p))

\* the parts ordered as strings
PartValueAsText(p) == AsText(p)

\* the value by which Compare orders a part
PartValue(p) == Atoi(p)

\* a well-formed version: three parts, each a number
WellFormed(v) == Len(v) = 3 /\ \A i \in 1..3 : IsNumber(v[i])

\* the comparison from part i on: the first part that differs decides, and
\* equal versions compare as true
RECURSIVE CompareFrom(_, _, _)
CompareFrom(v, old, i) ==
    IF i > 3 THEN TRUE
    ELSE IF PartValue(v[i]) > PartValue(old[i]) THEN TRUE
    ELSE IF PartValue(v[i]) < PartValue(old[i]) THEN FALSE
    ELSE CompareFrom(v, old, i + 1)

\* v.Compare(old): false (with an error) unless both versions are well
\* formed, else major, minor and patch are compared in turn
Compare(v, old) ==
    IF ~WellFormed(v) \/ ~WellFormed(old) THEN FALSE
    ELSE CompareFrom(v, old, 1)

\* `res, err := v.Compare(tt.oldVersion)`
Compare_Call ==
    /\ op = "Compare" /\ pc = "call" /\ opResult = "running"
    /\ opResult' = IF Compare(argM, argW) THEN "true" ELSE "false"
    /\ pc' = "return"
    /\ UNCHANGED <<batchVars, parseVars, clusterVars, op, masters, workers,
                   argM, argW, log>>

\* the given version is argM, the old version argW
InitCompare ==
    /\ op = "Compare"
    /\ pc = "call"
    /\ argM \in Versions
    /\ argW \in Versions
    /\ masters = <<>>
    /\ workers = <<>>
    /\ LifeStart

NextCompare ==
    \/ Compare_Call

SpecCompare == InitCompare /\ [][NextCompare]_vars

\* ------------------------------------------- the environment of a host
\* the entries a host may declare: the key "k" and the key HostIP; 0 is an
\* address that is not the host's own
HostEnvs ==
    {<<>>, <<<<"k", "h">>>>, <<<<"HostIP", 0>>>>,
     <<<<"k", "h">>, <<"HostIP", 0>>>>}

\* cluster.Spec.Env: the key "k" that hosts declare too, the key "g" that
\* only the cluster declares, and HostIP
ClusterEnvs ==
    {<<>>, <<<<"k", "c">>>>, <<<<"g", "c">>>>,
     <<<<"k", "c">>, <<"g", "c">>>>, <<<<"HostIP", 0>>>>}

\* a cluster of up to MaxWorkers + 1 host entries of one IPv4 address each,
\* each entry with its own environment
InitEnv ==
    /\ op = "infra"
    /\ pc = "new"
    /\ \E n \in 1..(MaxWorkers + 1) :
         \E he \in [1..n -> HostEnvs] :
            hosts = [j \in 1..n |->
                       [ips |-> <<j>>,
                        roles |-> IF j = 1 THEN {"master"} ELSE {"node"},
                        env |-> he[j]]]
    /\ env \in ClusterEnvs
    /\ driver = NoDriver
    /\ cf = NoClusterFile
    /\ masters = <<>>
    /\ workers = <<>>
    /\ argM = <<>>
    /\ argW = <<>>
    /\ opResult = "running"
    /\ log = <<>>
    /\ BatchIdle
    /\ ParseIdle

NextEnv ==
    \/ NewInfraDriver
    \/ GetHostEnv
    \/ GetClusterEnv

SpecEnv == InitEnv /\ [][NextEnv]_vars

\* ------------------------------------------------------- the ClusterFile
\* A v2.Cluster is a struct whose Spec.Hosts is a slice: a view (array,
\* length) of an array of host entries. Copying the struct copies the view,
\* not the array. A host entry is modelled by its IPS list.
MaxChanges == 2

\* the IPS lists of a host entry
IPLists == {<<1>>, <<2>>, <<1, 2>>}

\* the host lists of a cluster description
HostLists == UNION {[1..k -> IPLists] : k \in 1..2}

\* the host entries the view v shows
Shown(arrays, v) == SubSeq(arrays[v.arr], 1, v.len)

\* the cluster description the ClusterFile holds
ClusterValue(c) == Shown(c.arrays, c.cluster)

\* a change of the cluster description is still within the bound
CanChange == op = "clusterfile" /\ cf.changes < MaxChanges

\* `*c.cfSnapshot = *c.cluster`: the snapshot gets the view of the cluster
ShallowSnapshot(c) == [set |-> TRUE, arr |-> c.cluster.arr, len |-> c.cluster.len]

\* c.CommitSnapshot(); atCommit keeps the description of that moment for
\* the comparison after a rollback
CommitSnapshot ==
    /\ op = "clusterfile"
    /\ cf' = [cf EXCEPT !.snapshot = ShallowSnapshot(cf),
                        !.atCommit = ClusterValue(cf)]
    /\ log' = <<"CommitSnapshot">>
    /\ UNCHANGED <<batchVars, parseVars, hosts, env, driver, op, pc, masters,
                   workers, argM, argW, opResult>>

\* c.SetCluster(cluster) with a description built elsewhere: c.cluster
\* points to the new struct, whose Hosts have an array of their own
SetCluster ==
    /\ CanChange
    /\ \E hl \in HostLists :
         cf' = [cf EXCEPT !.arrays = Append(@, hl),
                          !.cluster = [arr |-> Len(cf.arrays) + 1,
                                       len |-> Len(hl)],
                          !.changes = @ + 1]
    /\ log' = <<"SetCluster">>
    /\ UNCHANGED <<batchVars, parseVars, hosts, env, driver, op, pc, masters,
                   workers, argM, argW, opResult>>

\* cluster := c.GetCluster(); cluster.Spec.Hosts[i].IPS = ips;
\* c.SetCluster(cluster): the copy GetCluster returns views the same array,
\* and the assignment writes the entry in that array (as the loops of
\* ConstructClusterForScaleDown do)
EditHostIPs ==
    /\ CanChange
    /\ \E i \in 1..cf.cluster.len, ips \in IPLists :
         cf' = [cf EXCEPT !.arrays[cf.cluster.arr][i] = ips,
                          !.changes = @ + 1]
    /\ log' = <<"EditHostIPs">>
    /\ UNCHANGED <<batchVars, parseVars, hosts, env, driver, op, pc, masters,
                   workers, argM, argW, opResult>>

\* cluster := c.GetCluster(); cluster.Spec.Hosts = <a new slice>;
\* c.SetCluster(cluster): the host list is rebuilt in a new array, with an
\* entry dropped or an entry added
EditHostList ==
    /\ CanChange
    /\ \E hl \in {SubSeq(ClusterValue(cf), 1, cf.cluster.len - 1)}
                 \cup {Append(ClusterValue(cf), ips) : ips \in IPLists} :
         cf' = [cf EXCEPT !.arrays = Append(@, hl),
                          !.cluster = [arr |-> Len(cf.arrays) + 1,
                                       len |-> Len(hl)],
                          !.changes = @ + 1]
    /\ log' = <<"EditHostList">>
    /\ UNCHANGED <<batchVars, parseVars, hosts, env, driver, op, pc, masters,
                   workers, argM, argW, opResult>>

\* c.RollBackClusterFile(): without a snapshot an error is logged and
\* nothing is done; else `*c.cluster = *c.cfSnapshot`
RollBackClusterFile ==
    /\ op = "clusterfile"
    /\ cf' = IF cf.snapshot.set
             THEN [cf EXCEPT !.cluster = [arr |-> cf.snapshot.arr,
                                          len |-> cf.snapshot.len]]
             ELSE cf
    /\ log' = <<"RollBackClusterFile">>
    /\ UNCHANGED <<batchVars, parseVars, hosts, env, driver, op, pc, masters,
                   workers, argM, argW, opResult>>

\* a ClusterFile as NewClusterFile returns it: a cluster, no snapshot
InitClusterFile ==
    /\ op = "clusterfile"
    /\ pc = "ready"
    /\ \E hl \in HostLists :
         cf = [loaded |-> TRUE,
               arrays |-> <<hl>>,
               cluster |-> [arr |-> 1, len |-> Len(hl)],
               snapshot |-> [set |-> FALSE, arr |-> 0, len |-> 0],
               atCommit |-> <<>>,
               changes |-> 0]
    /\ hosts = <<>>
    /\ env = <<>>
    /\ driver = NoDriver
    /\ masters = <<>>
    /\ workers = <<>>
    /\ argM = <<>>
    /\ argW = <<>>
    /\ opResult = "running"
    /\ log = <<>>
    /\ BatchIdle
    /\ ParseIdle

NextClusterFile ==
    \/ CommitSnapshot
    \/ SetCluster
    \/ EditHostIPs
    \/ EditHostList
    \/ RollBackClusterFile

SpecClusterFile == InitClusterFile /\ [][NextClusterFile]_vars

\* the hosts on which an operation of the batch failed
FailedHosts == {ipList[i] : i \in failed}

\* the batch functions whose error is meant to list the failed hosts
AggregatingKinds == {"Execute", "concurrencyExecute", "mountRootfs",
                     "unmountRootfs"}

\* C1: a non-empty batch that ran its host tasks returns nil when no host
\* failed, and otherwise an error that names exactly the hosts that failed
C1_ErrorNamesExactlyFailedHosts ==
    (/\ bstate = "returned"
     /\ kind \in AggregatingKinds
     /\ Len(ipList) > 0
     /\ AllSpawned)
    => IF failed = {} THEN ~result.isErr
                      ELSE result.isErr /\ result.names = FailedHosts

Blank == <<" ">>
Continuation == <<" ", "\\", "\n", "\t">>

\* the join command of the captured output the protocol is tested against:
\* --token T --discovery-token-ca-cert-hash H --experimental-control-plane
\* --certificate-key K, then "Please note"
LiteralJoinCommand ==
    /\ gphase = "closed"
    /\ sep \in {Blank, Continuation}
    /\ Len(line) = 4
    /\ line[1] = [flag |-> "token", val |-> "T"]
    /\ line[2].flag = "hash" /\ line[2].val \in {"HA", "HB"}
    /\ line[3].flag = "cp"
    /\ line[4].flag = "key" /\ line[4].val \in {"K", "Kextra"}

\* C8: parsing that output yields token T, the CA hash list [H] and, as the
\* certificate key, exactly the first 64 characters of K
C8_ParsesLiteralOutput ==
    (decoded /\ LiteralJoinCommand)
    => /\ ~parsed.panic
       /\ parsed.token = TokenValue
       /\ parsed.hashes = <<ValueText(line[2].val)>>
       /\ Len(parsed.key) = KeyLen
       /\ parsed.key = SubSeq(ValueText(line[4].val), 1, KeyLen)

\* C8 witness: the literal output with a key followed by "extra" was parsed
C8_Witness ==
    /\ decoded
    /\ LiteralJoinCommand
    /\ line[4].val = "Kextra"
    /\ parsed.key = CertKey

\* a join command whose flags each come once, with a value, and whose values
\* are each followed by a blank or by the end of the text
HasFlag(f) == \E i \in DOMAIN line : line[i].flag = f
ValueOfFlag(f) == ValueText(line[CHOOSE i \in DOMAIN line : line[i].flag = f].val)

WellFormedFlags ==
    /\ gphase \in {"line", "closed"}
    /\ sep \in {Blank, Continuation}
    /\ \A f \in FlagNames : Count(f) <= 1
    /\ \A i \in DOMAIN line :
         line[i].flag # "cp" => line[i].val \in {"T", "HA", "HB", "K", "Kextra"}
    /\ (gphase = "closed" /\ sep # Blank /\ line # <<>>)
         => line[Len(line)].flag \in {"cp", "key"}

\* C9: when a flag is absent from such a join command the parser returns
\* normally, the field of the absent flag is at its zero value and the fields
\* of the flags that are there hold their values
C9_AbsentFlagLeavesZeroValue ==
    (/\ decoded
     /\ Contains(output, KubeadmJoin)
     /\ WellFormedFlags
     /\ \E f \in {"token", "hash", "key"} : ~HasFlag(f))
    => /\ ~parsed.panic
       /\ parsed.token = (IF HasFlag("token") THEN ValueOfFlag("token") ELSE <<>>)
       /\ parsed.hashes = (IF HasFlag("hash") THEN <<ValueOfFlag("hash")>> ELSE <<>>)
       /\ parsed.key = (IF HasFlag("key") THEN CertKey ELSE <<>>)

\* C9 witness: a join command with a CA hash and a key but no --token was
\* parsed
C9_Witness ==
    /\ decoded
    /\ WellFormedFlags
    /\ ~HasFlag("token") /\ HasFlag("hash") /\ HasFlag("key")
    /\ parsed.token = <<>>
    /\ parsed.hashes # <<>>
    /\ parsed.key = CertKey

\* the steps that bootstrap master-zero
BootstrapSteps ==
    {"initKubeadmConfig", "generateCert", "createKubeConfig",
     "CopyStaticFiles", "initMaster0"}

\* the bootstrap of master-zero is complete: every step returned without
\* error, the init command was issued and its output parsed
Bootstrapped ==
    /\ BootstrapSteps \subseteq Range(log)
    /\ \A c \in Range(InitMaster0Cmds) : c \in Range(cmds[Master0])
    /\ decoded /\ ~parsed.panic

\* the masters that join master-zero
OtherMasters == IF masters = <<>> THEN {} ELSE Range(Tail(masters))

\* every master join is over: each master had its join issued and the batch
\* of the joins has returned
MastersJoined ==
    /\ \A h \in OtherMasters : cmds[h] = <<"joinMaster">>
    /\ "joinMasters" \in Range(log)

\* every worker join is over: each worker went through all its commands and
\* the batch of the joins has returned
WorkersJoined ==
    /\ \A h \in Range(workers) : cmds[h] = <<"initKube">> \o Steps("joinNodes")
    /\ "joinNodes" \in Range(log)
    /\ bstate = "idle"

\* C5: in Install a command reaches another master only after the
\* bootstrap of master-zero is complete, a command reaches a worker only
\* after every master join is over, and the admin kubeconfig is pulled only
\* after every worker join is over
C5_InstallTiersAreOrdered ==
    (op = "Install")
    => /\ (\E h \in OtherMasters : cmds[h] # <<>>) => Bootstrapped
       /\ (\E h \in Range(workers) : cmds[h] # <<>>)
             => (Bootstrapped /\ MastersJoined)
       /\ (masters # <<>>
           /\ "dumpKubeConfigIntoCluster" \in Range(cmds[Master0]))
             => (Bootstrapped /\ MastersJoined /\ WorkersJoined)

\* C5 witness: Install of three masters and two workers returned nil after
\* pulling the kubeconfig
C5_Witness ==
    /\ op = "Install"
    /\ opResult = "nil"
    /\ Len(masters) = 3
    /\ Len(workers) = 2
    /\ "dumpKubeConfigIntoCluster" \in Range(cmds[Master0])
    /\ \A h \in OtherMasters : cmds[h] # <<>>
    /\ \A h \in Range(workers) : cmds[h] # <<>>

\* C10: when the output of "kubeadm init" holds no "kubeadm join", Install
\* returns an error value to its caller
C10_MissingMarkerIsReturnedAsError ==
    (op = "Install" /\ decoded /\ ~Contains(output, KubeadmJoin))
    => opResult = "error"

\* no remote command was issued and no prompt was shown
NoSideEffect ==
    /\ \A h \in IPs : cmds[h] = <<>>
    /\ log = <<>>

\* C3: once ScaleDown is past its check, an input for which
\* len(currentMasters) - len(mastersToRemove) > 0 does not hold has been
\* rejected: ScaleDown returned an error, no command was issued and no
\* prompt shown
C3_ScaleDownRejectsByCount ==
    (/\ op = "ScaleDown"
     /\ pc # "check"
     /\ ~(Len(masters) - Len(argM) > 0))
    => (opResult = "error" /\ NoSideEffect)

\* the masters and the workers of the cluster after the operation
MastersAfter == IF op = "ScaleDown" THEN RemoveIPs(masters, argM) ELSE masters
WorkersAfter == IF op = "ScaleDown" THEN RemoveIPs(workers, argW) ELSE workers

\* the operation adds masters to, or removes masters from, the cluster
MasterSetChanged ==
    IF op = "ScaleUp" THEN argM # <<>>
                      ELSE Range(argM) \cap Range(masters) # {}

\* C4: after a ScaleUp or ScaleDown that changed the master set returned
\* nil, the backend set of every worker of the cluster is the set of the
\* masters of the cluster
C4_WorkersBalanceOverNewMasters ==
    (/\ op \in {"ScaleUp", "ScaleDown"}
     /\ opResult = "nil"
     /\ MasterSetChanged)
    => \A w \in Range(WorkersAfter) : lb[w] = Range(MastersAfter)

\* a removal was issued on some host
RemovalIssued ==
    \E h \in IPs : \E i \in DOMAIN cmds[h] :
        cmds[h][i] \in {"deleteNode", "deleteMaster"}

\* C7: when the operator has declined a prompt of ScaleDown or Reset, the
\* operation has issued no removal on any host
C7_DeclinedPromptMeansNoRemoval ==
    (op \in {"ScaleDown", "Reset"} /\ "declined" \in Range(log))
    => (~RemovalIssued /\ pc = "return" /\ opResult = "error")

\* C3 as amended: once ScaleDown is past its check, an input that leaves no
\* master (every current master is among mastersToDelete) has been rejected:
\* ScaleDown returned an error, no command was issued and no prompt shown
C3_ScaleDownRejectsWhenNoMasterRemains ==
    (/\ op = "ScaleDown"
     /\ pc # "check"
     /\ Range(masters) \subseteq Range(argM))
    => (opResult = "error" /\ NoSideEffect)

\* C3 witness: ScaleDown of both masters and the worker of a cluster was
\* refused
C3_Witness ==
    /\ op = "ScaleDown"
    /\ pc = "return"
    /\ opResult = "error"
    /\ Len(masters) = 2
    /\ Range(masters) = Range(argM)
    /\ argW # <<>>
    /\ NoSideEffect

\* the place of host h in the sequence of the replace operations
Replaced(h) == \E i \in DOMAIN log : log[i] = h
PlaceOf(h) == CHOOSE i \in DOMAIN log : log[i] = h

\* host a was replaced, with all its commands done, before host b was touched
Before(a, b) ==
    Replaced(b) => /\ Replaced(a)
                   /\ PlaceOf(a) < PlaceOf(b)
                   /\ cmds[a] = UpgradeCmds

\* C6: in the sequence of the per-host replace operations of an upgrade
\* master-zero comes before every other master and every master before
\* every worker
C6_UpgradeOrder ==
    (op = "upgrade")
    => /\ \A h \in OtherMasters : Before(Master0, h)
       /\ \A m \in Range(masters) : \A w \in Range(workers) : Before(m, w)
       /\ \A i, j \in DOMAIN log : i # j => log[i] # log[j]

\* C6 witness: the upgrade of three masters and two workers returned nil
C6_Witness ==
    /\ op = "upgrade"
    /\ opResult = "nil"
    /\ Len(masters) = 3
    /\ Len(workers) = 2
    /\ log = masters \o workers

\* every flag that takes a value has one, and the key has its full length
FlagsHaveValues ==
    \A i \in DOMAIN line :
        line[i].flag # "cp" => line[i].val \in {"T", "HA", "HB", "K", "Kextra"}

\* the CA hash flags of the join command, in order of appearance
HashFlags == SelectSeq(line, LAMBDA g : g.flag = "hash")

\* C11: when the join command, its flags separated by blanks, carries two
\* --discovery-token-ca-cert-hash flags, the parsed CA hash list holds the
\* values of both, in order of appearance
C11_EveryHashIsKept ==
    (/\ decoded
     /\ gphase \in {"line", "closed"}
     /\ sep = Blank
     /\ FlagsHaveValues
     /\ Len(HashFlags) = 2)
    => /\ ~parsed.panic
       /\ parsed.hashes = [i \in 1..2 |-> ValueText(HashFlags[i].val)]

\* what the parser is to trim away
Artifacts == {"\t", "\n", "\\"}
NoArtifact(v) == \A i \in DOMAIN v : v[i] \notin Artifacts

\* C12: whatever white space (blank, tab, newline, line continuation)
\* separates the flags of the join command and follows its values, the
\* parser returns normally and no extracted value holds a tab, a newline or
\* a backslash
C12_ValuesAreTrimmed ==
    (/\ decoded
     /\ Contains(output, KubeadmJoin)
     /\ line # <<>>
     /\ FlagsHaveValues
     /\ \A f \in FlagNames : Count(f) <= 1)
    => /\ ~parsed.panic
       /\ NoArtifact(parsed.token)
       /\ \A i \in DOMAIN parsed.hashes : NoArtifact(parsed.hashes[i])
       /\ NoArtifact(parsed.key)

\* C13: a driver operation called with an address that is not in the host
\* set of the driver returns the error naming the address, no operation has
\* gone to any unknown address, and the host lists of the driver are those
\* of the cluster it was built for
C13_UnknownHostFailsWithoutNetwork ==
    (op = "driver")
    => /\ \A h \in IPs \ SSHConfigs : cmds[h] = <<>>
       /\ (pc # "ready" /\ argM[1] \notin SSHConfigs)
             => /\ result = Err({argM[1]})
                /\ \A h \in IPs : cmds[h] = <<>>
       /\ \E c \in Clusters : masters = c.m /\ workers = c.w

\* C13 witness: Ping on an address outside a two-host cluster returned the
\* error
C13_Witness ==
    /\ op = "driver"
    /\ pc = "Ping"
    /\ Len(masters) = 1 /\ Len(workers) = 1
    /\ argM[1] \notin SSHConfigs
    /\ result.isErr
    /\ \A h \in IPs : cmds[h] = <<>>

\* C14: a batch of Execute returns, whether or not one of its hosts never
\* responds
C14_BatchWithSilentHostReturns == <>(bstate = "returned")

\* C15: mountRootfs issues the init command on a host only when the copy to
\* that host succeeded: no goroutine whose copy failed goes on to run it
C15_InitOnlyAfterCopySucceeded ==
    [][\A i \in DOMAIN ipList :
          (/\ kind = "mountRootfs"
           /\ tpc[i] = At(2, "run")
           /\ tpc'[i] = At(2, "done"))
          => i \notin failed]_vars

\* C16: a call of ConstructClusterForScaleUp that returns an error leaves
\* the host list and the environment list of the cluster as they were
\* before the call
C16_FailedScaleUpLeavesClusterUntouched ==
    [][(pc = "ready" /\ log' = <<"ConstructClusterForScaleUp">>
        /\ opResult' = "error")
       => (hosts' = hosts /\ env' = env)]_vars

\* command c was issued on host h
Issued(h, c) == \E i \in DOMAIN cmds[h] : cmds[h][i] = c

\* C17: in ScaleDown the removal of a master is issued only when
\* deleteNodes has returned nil with every worker to delete removed; the
\* backends are rendered anew only on remaining workers and only when
\* deleteMasters has returned nil with every master to delete removed; and
\* a ScaleDown of masters that returned nil has left on every remaining
\* worker the backend set of the remaining masters
C17_ScaleDownWorkersMastersThenBalancer ==
    op = "ScaleDown" =>
       /\ (\E h \in IPs : Issued(h, "deleteMaster"))
          => (argW # <<>>
              => /\ "deleteNodes" \in Range(log)
                 /\ \A w \in Range(argW) : Issued(w, "deleteNode"))
       /\ \A h \in IPs :
            Issued(h, "lvscare")
            => /\ h \in Range(RemainWorkers)
               /\ "deleteMasters" \in Range(log)
               /\ \A m \in Range(argM) : Issued(m, "deleteMaster")
       /\ (opResult = "nil" /\ argM # <<>>)
          => \A w \in Range(RemainWorkers) : lb[w] = Range(RemainMasters)

\* a ScaleDown of workers and masters has returned nil with workers left
C17_Witness ==
    /\ op = "ScaleDown"
    /\ opResult = "nil"
    /\ argW # <<>>
    /\ argM # <<>>
    /\ \E h \in IPs : Issued(h, "lvscare")
    /\ \E h \in IPs : Issued(h, "deleteMaster")

\* C18: in ScaleUp a command reaches a new master only when the join token
\* was queried on master-zero in this invocation; a command reaches a new
\* worker only when, after that query, joinMasters has returned nil with
\* the join issued on every new master; and the backends rendered on a new
\* worker are the masters of the cluster, the new ones among them
C18_ScaleUpTokenMastersThenWorkers ==
    op = "ScaleUp" =>
       /\ \A m \in Range(argM) :
            cmds[m] # <<>>
            => /\ "getJoinTokenHashAndKey" \in Range(log)
               /\ Issued(Master0, "getJoinTokenHashAndKey")
       /\ \A w \in Range(argW) :
            cmds[w] # <<>>
            => /\ "getJoinTokenHashAndKey" \in Range(log)
               /\ "joinMasters" \in Range(log)
               /\ \A m \in Range(argM) : Issued(m, "joinMaster")
       /\ \A w \in Range(argW) :
            lb[w] # {} => /\ lb[w] = Range(masters)
                          /\ Range(argM) \subseteq lb[w]

\* a ScaleUp by masters and workers has returned nil
C18_Witness ==
    /\ op = "ScaleUp"
    /\ opResult = "nil"
    /\ argM # <<>>
    /\ argW # <<>>
    /\ \A w \in Range(argW) : Issued(w, "joinNode") /\ lb[w] = Range(masters)

\* C19: the API-server endpoint written to a joining worker is the virtual
\* address at port 6443, which is the address of no master, and the
\* backends rendered on that worker are exactly the masters handed to
\* joinNodes, in Install the whole master list
C19_WorkerJoinsThroughVIP ==
    \A h \in IPs :
       /\ endpoint[h] # <<>>
          => /\ endpoint[h] = <<VIP, APIServerPort>>
             /\ endpoint[h][1] \notin Range(masters)
       /\ (kind = "joinNodes" /\ h \in Range(ipList) /\ lb[h] # {})
          => /\ lb[h] = Range(rs)
             /\ op = "Install" => rs = masters

\* a worker of a cluster of several masters has joined
C19_Witness ==
    /\ op = "Install"
    /\ Len(masters) > 1
    /\ \E w \in Range(workers) :
         /\ Issued(w, "joinNode")
         /\ Issued(w, "lvscare")
         /\ endpoint[w] = <<VIP, APIServerPort>>
         /\ lb[w] = Range(masters)

\* on host h every command b was issued after a command a
IssuedAfter(h, a, b) ==
    \A i \in DOMAIN cmds[h] :
        cmds[h][i] = b => \E j \in 1..(i - 1) : cmds[h][j] = a

\* C20 as stated: on a host of the upgrade the binary is replaced only
\* after the service was stopped, and the service is started only after the
\* binary was replaced
C20_StopReplaceStart ==
    op = "upgrade" =>
       \A h \in IPs : /\ IssuedAfter(h, "k0s stop", "mv")
                      /\ IssuedAfter(h, "mv", "k0s start")

\* C20: on a host of the upgrade the binary is replaced after it was made
\* executable, the service is stopped only after the binary was replaced,
\* and the service is started only after it was stopped
C20_ReplaceStopStart ==
    op = "upgrade" =>
       \A h \in IPs : /\ IssuedAfter(h, "chmod", "mv")
                      /\ IssuedAfter(h, "mv", "k0s stop")
                      /\ IssuedAfter(h, "k0s stop", "k0s start")

\* the upgrade has run all its commands on a master and on a worker
C20_Witness ==
    /\ op = "upgrade"
    /\ \E m \in Range(masters) : Issued(m, "k0s start")
    /\ \E w \in Range(workers) : Issued(w, "k0s start")

\* the upgrade of host h has begun and has not started the service again
InTransition(h) == cmds[h] # <<>> /\ ~Issued(h, "k0s start")

\* the masters whose service was stopped and has not been started again
Unavailable ==
    {m \in Range(masters) : Issued(m, "k0s stop") /\ ~Issued(m, "k0s start")}

\* C21 as stated: no two hosts are in their transition at once, and of N
\* masters at most N-1 are unavailable
C21_AtMostAllButOneMasterDown ==
    op = "upgrade" =>
       /\ Cardinality({h \in IPs : InTransition(h)}) <= 1
       /\ Cardinality(Unavailable) <= Len(masters) - 1

\* C21: no two hosts are in their transition at once, so at most one
\* master is unavailable
C21_OneHostInTransition ==
    op = "upgrade" =>
       /\ Cardinality({h \in IPs : InTransition(h)}) <= 1
       /\ Cardinality(Unavailable) <= 1

\* a master other than master-zero is stopped while the upgrade runs, the
\* masters before it upgraded
C21_Witness ==
    /\ op = "upgrade"
    /\ opResult = "running"
    /\ Len(masters) > 2
    /\ Unavailable = {masters[2]}
    /\ Issued(Master0, "k0s start")

\* C22: in Reset a removal is issued only when the operator has confirmed;
\* the removal of a master is issued only when deleteNodes has returned nil
\* with the removal issued on every worker; and a Reset that returned an
\* error from deleteNodes has issued no removal of a master
C22_ResetConfirmsThenWorkersThenMasters ==
    op = "Reset" =>
       /\ RemovalIssued => (log # <<>> /\ log[1] = "confirmed")
       /\ (\E h \in IPs : Issued(h, "deleteMaster"))
          => /\ "deleteNodes" \in Range(log)
             /\ \A w \in Range(workers) : Issued(w, "deleteNode")
       /\ (opResult = "error" /\ "deleteNodes" \notin Range(log))
          => \A h \in IPs : ~Issued(h, "deleteMaster")

\* a Reset of a cluster with workers has returned nil
C22_Witness ==
    /\ op = "Reset"
    /\ opResult = "nil"
    /\ Len(workers) > 1
    /\ \A m \in Range(masters) : Issued(m, "deleteMaster")
    /\ \A w \in Range(workers) : Issued(w, "deleteNode")

\* C23: Install and ScaleUp on an empty master list do not abort the
\* process; they return an error to the caller with no command issued on
\* any host
C23_NoMasterIsAnErrorBeforeAnyStep ==
    (op \in {"Install", "ScaleUp"} /\ masters = <<>>)
    => /\ opResult # "panic"
       /\ \A h \in IPs : cmds[h] = <<>>
       /\ pc = "return" => opResult = "error"

\* C24: Upgrade of the kubeadm runtime comes back to its caller, with an
\* error value, and does not abort the process
C24_UpgradeReturnsUnsupportedError ==
    op = "Upgrade" => /\ opResult # "panic"
                      /\ pc = "return" => opResult = "error"

\* C25: a host list that mixes IPv4 and IPv6 addresses, and a cluster
\* without a host, are refused with an error and no connection object is
\* built; the hosts of a driver that was built are of one family
C25_DriverRefusesMixedFamiliesAndNoHosts ==
    (op = "infra" /\ pc # "new")
    => LET all == AllIPs(hosts)
           mixed == \E i, j \in DOMAIN all : IsIPv4(all[i]) # IsIPv4(all[j])
       IN /\ (all = <<>> \/ mixed)
             => (opResult = "error" /\ ~driver.built
                 /\ driver.sshConfigs = {})
          /\ driver.built
             => (\A i, j \in DOMAIN driver.hosts :
                    IsIPv4(driver.hosts[i]) = IsIPv4(driver.hosts[j]))

\* a cluster of three hosts whose last is of the other family was refused
C25_Witness ==
    /\ op = "infra"
    /\ pc = "return"
    /\ opResult = "error"
    /\ Len(hosts) = 3
    /\ IsIPv4(hosts[1].ips[1]) /\ IsIPv4(hosts[2].ips[1])
    /\ ~IsIPv4(hosts[3].ips[1])
    /\ driver.sshConfigs = {}

\* C26: in a driver built from a cluster description every address of a
\* role's list is a host of the driver with a connection config, and the
\* list of a role is the IPS of the host entries that hold the role, in the
\* order of their declaration, so that the master list starts with the
\* first declared master
C26_RoleIndexFollowsDeclaration ==
    (op = "infra" /\ driver.built)
    => \A r \in {"master", "node"} :
          /\ Range(driver.roleHostsMap[r]) \subseteq Range(driver.hosts)
          /\ Range(driver.roleHostsMap[r]) \subseteq driver.sshConfigs
          /\ driver.roleHostsMap[r] = IPListByRole(hosts, r)

\* C27: a call of GetHostEnv, GetClusterEnv or GetHostIPListByRole leaves
\* the state of the driver as it was
C27_AccessorsOnlyRead ==
    [][(pc = "built" /\ log' # log) => driver' = driver]_vars


\* the second Install is running or has returned
SecondInstall == op = "Install" /\ "Install" \in Range(log)

\* C28: a second Install on a cluster that the first Install brought to
\* Ready never returns an error after one of its steps has succeeded on a
\* host: when the second Install has failed, no step of it was completed,
\* the last entry of the log is still the mark of the second invocation
C28_SecondInstallFailsBeforeAnyStep ==
    (SecondInstall /\ opResult = "error") => log[Len(log)] = "Install"


\* C29: after a successful apply against an existing cluster the master
\* list and the node list of the cluster hold exactly the addresses of the
\* desired lists
C29_ApplyReachesTheDesiredLists ==
    (op = "apply" /\ opResult = "nil") =>
        /\ Range(masters) = Range(argM)
        /\ Range(workers) = Range(argW)


\* the version a is at least the version b: they are equal, or at the first
\* part where they differ the number of a is the larger
AtLeast(a, b) ==
    \/ \A i \in 1..3 : Atoi(a[i]) = Atoi(b[i])
    \/ \E i \in 1..3 :
         /\ Atoi(a[i]) > Atoi(b[i])
         /\ \A j \in 1..(i - 1) : Atoi(a[j]) = Atoi(b[j])

C31_FailedStepEndsInstall ==
    op = "Install" =>
        /\ (opResult = "error" /\ "initMaster0" \notin Range(log)) =>
               \A h \in OtherMasters : cmds[h] = <<>>
        /\ (kind = "joinMasters" /\ failed # {}) =>
               \A h \in Range(workers) : cmds[h] = <<>>
        /\ (kind = "joinNodes" /\ failed # {}) =>
               /\ ~Issued(Master0, "dumpKubeConfigIntoCluster")
               /\ opResult # "nil"


\* C32: in an upgrade, a worker whose binary was replaced means that every
\* master has run all its commands and none of them failed; and a failure
\* on a host ends the upgrade with an error, every host after it in the
\* order masters, workers untouched
C32_WorkersAfterAllMastersSucceeded ==
    op = "upgrade" =>
       LET order == masters \o workers IN
       /\ (\E w \in Range(workers) : Issued(w, "mv")) =>
              \A m \in Range(masters) :
                  cmds[m] = <<"chmod", "mv", "k0s stop", "k0s start">>
                  /\ m \notin failed
       /\ failed # {} => opResult = "error"
       /\ \A i, j \in DOMAIN order :
              (order[i] \in failed /\ i < j) => cmds[order[j]] = <<>>

\* the upgrade replaced the binary of a worker after three masters
C32_Witness ==
    /\ op = "upgrade"
    /\ Len(masters) = 3
    /\ \E w \in Range(workers) : Issued(w, "mv")
    /\ failed = {}


\* C33: in a worker join the commands of a host are issued in the fixed
\* order, the join command is issued on a host only when the load-balancer
\* rule of that host succeeded, and a host on which a command failed issues
\* no further command
C33_WorkerSequenceStopsAtFirstFailure ==
    (op = "Install" /\ kind = "joinNodes") =>
        \A i \in DOMAIN ipList :
            LET h == ipList[i]
                seq == <<"initKube", "checkRoute", "ipvs", "writeJoinConfig",
                         "setHostAlias", "joinNode", "lvscare">>
            IN /\ cmds[h] = SubSeq(seq, 1, Len(cmds[h]))
               /\ Issued(h, "joinNode") => lb[h] # {}
               /\ i \in failed => tpc[i].phase # "run"


\* C34: in a concurrent worker join the outcome of a host depends on its own
\* commands only: joinNodes returns an error when a command of some host
\* failed, and a host none of whose commands failed ends with its whole
\* sequence issued
C34_WorkerOutcomeIsItsOwn ==
    (op = "Install" /\ kind = "joinNodes") =>
        /\ (bstate = "returned" /\ failed # {}) => result.isErr
        /\ \A i \in DOMAIN ipList :
               (i \notin failed /\ i \in DOMAIN tpc /\ tpc[i].phase = "done")
                   => Issued(ipList[i], "lvscare")


\* what the host at address h declares, and what the cluster declares
DeclaredByHost(h) == ConvertEnv(HostOf(hosts, h).env)
DeclaredByCluster == ConvertEnv(env)

\* the environment of host h holds the host's value for every key the host
\* declares, the cluster's value for every key only the cluster declares,
\* and no other key but HostIP
HostOverridesCluster(h) ==
    LET e == driver.hostEnvMap[h] IN
    /\ \A k \in DOMAIN DeclaredByHost(h) : e[k] = DeclaredByHost(h)[k]
    /\ \A k \in DOMAIN DeclaredByCluster \ DOMAIN DeclaredByHost(h) :
           k \in DOMAIN e /\ e[k] = DeclaredByCluster[k]
    /\ DOMAIN e \subseteq
           DOMAIN DeclaredByHost(h) \cup DOMAIN DeclaredByCluster \cup {"HostIP"}
    /\ log = <<"GetHostEnv", h>> => "HostIP" \in DOMAIN e

\* C35 as stated: the environment of a host is the cluster's overridden by
\* the host's, and HostIP is the host's own address unless the host
\* declares it
C35_HostIPIsOwnUnlessHostSetsIt ==
    (op = "infra" /\ driver.built) =>
        \A h \in Range(driver.hosts) :
            /\ HostOverridesCluster(h)
            /\ ("HostIP" \in DOMAIN driver.hostEnvMap[h]
                  /\ "HostIP" \notin DOMAIN DeclaredByHost(h))
               => driver.hostEnvMap[h]["HostIP"] = h

\* C35: the environment of a host is the cluster's overridden by the
\* host's; HostIP is the host's own address unless the host or the cluster
\* declares it; and reading the environment of one host leaves that of
\* every other host and that of the cluster as they were
C35_HostEnvOverridesClusterEnv ==
    /\ [](  (op = "infra" /\ driver.built) =>
              \A h \in Range(driver.hosts) :
                  /\ HostOverridesCluster(h)
                  /\ ("HostIP" \in DOMAIN driver.hostEnvMap[h]
                        /\ "HostIP" \notin DOMAIN DeclaredByHost(h)
                        /\ "HostIP" \notin DOMAIN DeclaredByCluster)
                     => driver.hostEnvMap[h]["HostIP"] = h)
    /\ [][ \A h \in Range(driver.hosts) :
             (driver.built /\ log' = <<"GetHostEnv", h>>) =>
                 /\ driver'.clusterEnv = driver.clusterEnv
                 /\ \A g \in Range(driver.hosts) \ {h} :
                        driver'.hostEnvMap[g] = driver.hostEnvMap[g] ]_vars

\* host 2 declares "k" over the cluster's "k", inherits "g", and was read:
\* its HostIP is its own address
C35_Witness ==
    /\ op = "infra" /\ driver.built
    /\ log = <<"GetHostEnv", 2>>
    /\ driver.hostEnvMap[2] =
          [x \in {"k", "g", "HostIP"} |->
              IF x = "k" THEN "h" ELSE IF x = "g" THEN "c" ELSE 2]
    /\ driver.hostEnvMap[1] # driver.hostEnvMap[2]


\* no address is twice in the list
NoDuplicate(l) == \A i, j \in DOMAIN l : i # j => l[i] # l[j]

\* C36: a successful ConstructClusterForScaleUp on a cluster without a
\* repeated address in the list of a role leaves the master list and the
\* node list without a repeated address, and a call that names an address
\* the list of the same role already holds returns an error
C36_ScaleUpKeepsListsDuplicateFree ==
    [][(op = "construct" /\ pc = "ready"
        /\ log' = <<"ConstructClusterForScaleUp">>)
       => /\ opResult' = "nil" =>
                 /\ NoDuplicate(IPListByRole(hosts', "master"))
                 /\ NoDuplicate(IPListByRole(hosts', "node"))
          /\ (\/ AnyInIPList(argM', IPListByRole(hosts, "master"))
              \/ AnyInIPList(argW', IPListByRole(hosts, "node")))
             => opResult' = "error"]_vars


\* address ip is in the list of role r of host list hs
Member(hs, ip, r) == ip \in Range(IPListByRole(hs, r))

\* C37: ConstructClusterForScaleDown removes the requested memberships and
\* no other: afterwards no address of mastersToDelete is a master and no
\* address of workersToDelete is a node, every other membership of an
\* address in a role is kept, the remaining addresses of a role keep their
\* order, and no host entry has an empty address list
C37_ScaleDownRemovesExactlyTheRequested ==
    [][(op = "construct" /\ pc = "ready"
        /\ log' = <<"ConstructClusterForScaleDown">>)
       => /\ \A ip \in Range(argM') : ~Member(hosts', ip, "master")
          /\ \A ip \in Range(argW') : ~Member(hosts', ip, "node")
          /\ \A ip \in ClusterIPs :
                /\ (Member(hosts, ip, "master") /\ ip \notin Range(argM'))
                      => Member(hosts', ip, "master")
                /\ (Member(hosts, ip, "node") /\ ip \notin Range(argW'))
                      => Member(hosts', ip, "node")
          /\ IPListByRole(hosts', "master")
                = SelectSeq(IPListByRole(hosts, "master"),
                            LAMBDA x : x \notin Range(argM'))
          /\ IPListByRole(hosts', "node")
                = SelectSeq(IPListByRole(hosts, "node"),
                            LAMBDA x : x \notin Range(argW'))
          /\ \A i \in DOMAIN hosts' : hosts'[i].ips # <<>>]_vars


\* C38: RollBackClusterFile after a CommitSnapshot leaves the cluster
\* description equal to the one that was committed, whatever was changed
\* in between; without a snapshot it leaves the description as it is
C38_RollBackRestoresTheCommitted ==
    [][(op = "clusterfile" /\ log' = <<"RollBackClusterFile">>)
       => ClusterValue(cf') = IF cf.snapshot.set THEN cf.atCommit
                              ELSE ClusterValue(cf)]_vars


\* C39: the parser of the join command returns normally on every output
\* that holds a join command, also when a flag that takes a value is the
\* last word of the line and when the value of the certificate key is
\* shorter than KeyLen
C39_JoinCmdParserNeverPanics ==
    (decoded /\ Contains(output, KubeadmJoin)) => ~parsed.panic

====
